---- MODULE Spec2Model ----
(***************************************************************************)
(* NL2SQL pipeline: the SQL safety gate (is_safe_sql), the complexity      *)
(* estimator (analyze_query_complexity), the executor (safe_db_run), the   *)
(* result cache (cached_query_execution) and the LangGraph workflow        *)
(* (Start, FetchSchema, GenerateSQL, ExecuteSQL, AttemptCorrection,        *)
(* FormatAnswer, HandleError).                                             *)
(*                                                                         *)
(* Query texts are TLA+ strings handled character by character; the        *)
(* regular expressions of db_utils.py are interpreted by a small matcher   *)
(* covering exactly the constructs those patterns use.                     *)
(***************************************************************************)
EXTENDS Integers, Sequences, FiniteSets, TLC

(***************************************************************************)
(* Python values                                                           *)
(***************************************************************************)

\* A Python value is None, a str or a list of rows; the tag t tells them apart.
None == [t |-> "None", s |-> "", rows |-> <<>>]

Str(s) == [t |-> "str", s |-> s, rows |-> <<>>]

\* a list of row dicts; a row is a sequence of fields [k, ty, v]: column name,
\* Python type of the value and its text
List(rows) == [t |-> "list", s |-> "", rows |-> rows]

(***************************************************************************)
(* Characters and strings                                                  *)
(***************************************************************************)

Char(s, i) == SubSeq(s, i, i)

SetMax(S) == CHOOSE x \in S : \A y \in S : y <= x

SetMin(S) == CHOOSE x \in S : \A y \in S : x <= y

LowerLetters == "abcdefghijklmnopqrstuvwxyz"

UpperLetters == "ABCDEFGHIJKLMNOPQRSTUVWXYZ"

Digits == "0123456789"

LowerSet == {Char(LowerLetters, i) : i \in 1..26}

UpperSet == {Char(UpperLetters, i) : i \in 1..26}

DigitSet == {Char(Digits, i) : i \in 1..10}

\* str.upper() on one character
UpperMap == [c \in LowerSet |-> Char(UpperLetters, CHOOSE i \in 1..26 : Char(LowerLetters, i) = c)]

UpperChar(c) == IF c \in LowerSet THEN UpperMap[c] ELSE c

\* str.upper(): character by character (the text is split in halves)
RECURSIVE Upper(_)
Upper(s) ==
    IF Len(s) = 0 THEN ""
    ELSE IF Len(s) = 1 THEN UpperChar(s)
    ELSE Upper(SubSeq(s, 1, Len(s) \div 2)) \o Upper(SubSeq(s, Len(s) \div 2 + 1, Len(s)))

SpaceChars == {" ", "\n", "\t", "\r", "\f"}

WordChars == LowerSet \cup UpperSet \cup DigitSet \cup {"_"}

\* \s of the re module, and the characters str.strip() removes
IsSpace(c) == c \in SpaceChars

\* \w of the re module
IsWord(c) == c \in WordChars

\* str.strip()
Strip(s) ==
    LET nonsp == {i \in 1..Len(s) : ~IsSpace(Char(s, i))}
    IN  IF nonsp = {} THEN ""
        ELSE SubSeq(s, CHOOSE i \in nonsp : \A j \in nonsp : i <= j,
                       CHOOSE i \in nonsp : \A j \in nonsp : j <= i)

\* s.startswith(p)
StartsWith(s, p) == Len(p) <= Len(s) /\ SubSeq(s, 1, Len(p)) = p

\* p in s
Contains(s, p) == \E i \in 1..(Len(s) - Len(p) + 1) : SubSeq(s, i, i + Len(p) - 1) = p

(***************************************************************************)
(* Regular expressions: a pattern is a sequence of elements                *)
(***************************************************************************)

\* a literal run of characters
L(s) == [k |-> "lit", s |-> s]

\* \b
B == [k |-> "b", s |-> ""]

\* \s+
S1 == [k |-> "s+", s |-> ""]

\* \s*
S0 == [k |-> "s*", s |-> ""]

\* .* (the dot does not match a newline: no re.DOTALL anywhere in the source)
DOTSTAR == [k |-> ".*", s |-> ""]

\* ^
BOL == [k |-> "^", s |-> ""]

\* \b holds at position i: between s[i-1] and s[i] exactly one is a word character
AtBoundary(s, i) ==
    ((i > 1) /\ IsWord(Char(s, i - 1))) # ((i <= Len(s)) /\ IsWord(Char(s, i)))

\* a literal at position i; ic is re.IGNORECASE
LitAt(s, i, lit, ic) ==
    /\ i + Len(lit) - 1 <= Len(s)
    /\ IF ic THEN \A j \in 1..Len(lit) : UpperChar(Char(s, i + j - 1)) = UpperChar(Char(lit, j))
             ELSE SubSeq(s, i, i + Len(lit) - 1) = lit

\* the positions j >= i (or > i) such that s[i..j-1] consists of characters in the class
RunEnds(s, i, atLeastOne, spaces) ==
    {j \in (IF atLeastOne THEN i + 1 ELSE i)..(Len(s) + 1) :
        \A m \in i..(j - 1) : IF spaces THEN IsSpace(Char(s, m)) ELSE Char(s, m) # "\n"}

\* the end positions of the matches of pat[k..] starting at position i of s
RECURSIVE Ends(_, _, _, _, _)
Ends(pat, k, s, i, ic) ==
    IF k > Len(pat) THEN {i}
    ELSE LET e == pat[k] IN
         CASE e.k = "lit" -> IF LitAt(s, i, e.s, ic) THEN Ends(pat, k + 1, s, i + Len(e.s), ic) ELSE {}
           [] e.k = "b"   -> IF AtBoundary(s, i) THEN Ends(pat, k + 1, s, i, ic) ELSE {}
           [] e.k = "^"   -> IF i = 1 THEN Ends(pat, k + 1, s, i, ic) ELSE {}
           [] e.k = "s+"  -> UNION {Ends(pat, k + 1, s, j, ic) : j \in RunEnds(s, i, TRUE, TRUE)}
           [] e.k = "s*"  -> UNION {Ends(pat, k + 1, s, j, ic) : j \in RunEnds(s, i, FALSE, TRUE)}
           [] e.k = ".*"  -> UNION {Ends(pat, k + 1, s, j, ic) : j \in RunEnds(s, i, FALSE, FALSE)}

\* A match can start only where the first literal of the pattern starts:
\* the elements before it (\b, ^) consume nothing. Starts is the set of
\* positions at which the pattern's first literal character occurs.
Starts(pat, s, ic) ==
    LET k == IF pat[1].k = "lit" THEN 1
             ELSE IF pat[1].k \in {"b", "^"} /\ Len(pat) > 1 /\ pat[2].k = "lit" THEN 2
             ELSE 0
    IN  IF k = 0 THEN 1..(Len(s) + 1)
        ELSE IF ic THEN {i \in 1..Len(s) : UpperChar(Char(s, i)) = UpperChar(Char(pat[k].s, 1))}
        ELSE {i \in 1..Len(s) : Char(s, i) = Char(pat[k].s, 1)}

\* re.search(pat, s, flags) is not None
ReSearch(pat, s, ic) == \E i \in Starts(pat, s, ic) : Ends(pat, 1, s, i, ic) # {}

\* re.match(pat, s, flags) is not None
ReMatch(pat, s, ic) == Ends(pat, 1, s, 1, ic) # {}

\* len(re.findall(pat, s)): leftmost, non-overlapping matches, scanned from i
RECURSIVE FindallFrom(_, _, _)
FindallFrom(pat, s, i) ==
    LET at == {j \in Starts(pat, s, FALSE) : j >= i /\ Ends(pat, 1, s, j, FALSE) # {}}
    IN  IF at = {} THEN 0
        ELSE LET j == SetMin(at)
                 e == SetMax(Ends(pat, 1, s, j, FALSE))
             IN  1 + FindallFrom(pat, s, IF e = j THEN j + 1 ELSE e)

ReFindallCount(pat, s) == FindallFrom(pat, s, 1)

\* re.sub(r'\(.*?\)', '', s): each "(" up to the first ")" after it on the
\* same line is removed, left to right, without rescanning
RECURSIVE StripParensFrom(_, _)
StripParensFrom(s, i) ==
    LET closes == {m \in i..Len(s) : Char(s, m) = ")"}
        \* the end of the match that starts at "(" j, or 0 when there is none
        closer(j) == LET after == {m \in closes : m > j}
                     IN  IF after = {} THEN 0
                         ELSE LET c == SetMin(after)
                              IN  IF \A m \in (j + 1)..(c - 1) : Char(s, m) # "\n" THEN c ELSE 0
        opens == {j \in i..Len(s) : Char(s, j) = "(" /\ closer(j) # 0}
    IN  IF opens = {} THEN SubSeq(s, i, Len(s))
        ELSE LET j == SetMin(opens)
             IN  SubSeq(s, i, j - 1) \o StripParensFrom(s, closer(j) + 1)

StripParens(s) == StripParensFrom(s, 1)

(***************************************************************************)
(* Configuration                                                           *)
(***************************************************************************)

\* the DB_SCHEMA environment variable; the deployment queries schema "info"
DB_SCHEMA == "info"

MAX_CORRECTION_ATTEMPTS == 3

MAX_JOINS_THRESHOLD == 8

(***************************************************************************)
(* SQL safety patterns                                                     *)
(***************************************************************************)

ALLOWED_SQL_PATTERNS ==
    << <<BOL, S0, L("SELECT"), S1>>,
       <<BOL, S0, L("WITH"), S1>>,
       <<BOL, S0, L("EXPLAIN"), S1>> >>

\* the keyword list with TRUNCATE left out
DENY_KEYWORDS_short ==
    << "INSERT", "UPDATE", "DELETE",
       "DROP", "ALTER",
       "CREATE", "GRANT", "REVOKE",
       "EXEC", "EXECUTE", "DECLARE" >>

\* the twelve DML/DDL keywords that open the deny-list
DENY_KEYWORDS ==
    << "INSERT", "UPDATE", "DELETE",
       "DROP", "TRUNCATE", "ALTER",
       "CREATE", "GRANT", "REVOKE",
       "EXEC", "EXECUTE", "DECLARE" >>

BLOCKED_SQL_PATTERNS ==
    [i \in 1..Len(DENY_KEYWORDS) |-> <<B, L(DENY_KEYWORDS[i]), B>>] \o
    << <<B, L(";"), S0, L("--")>>, <<B, L(";"), S0, L("#")>>,
       <<B, L("SHUTDOWN"), B>>, <<B, L("XP_"), B>>,
       <<B, L("FROM"), S1, L("PG_")>>, <<B, L("COPY"), S1>>,
       <<B, L("UNION"), S1, L("ALL"), S1, L("SELECT")>> >>

(***************************************************************************)
(* SQL complexity analyzer                                                 *)
(***************************************************************************)

CROSS_JOIN_PATTERN == <<B, L("CROSS"), S1, L("JOIN"), B>>

join_patterns ==
    << <<B, L("INNER"), S1, L("JOIN"), B>>, <<B, L("LEFT"), S1, L("JOIN"), B>>,
       <<B, L("RIGHT"), S1, L("JOIN"), B>>, <<B, L("FULL"), S1, L("JOIN"), B>>,
       <<B, L("JOIN"), B>> >>

expensive_patterns ==
    << <<L("SELECT"), S1, L("*"), DOTSTAR, L("FROM"), DOTSTAR, L("WHERE"), DOTSTAR,
         L("IN"), S0, L("("), S0, L("SELECT")>>,
       <<L("EXISTS"), S0, L("("), S0, L("SELECT"), DOTSTAR, L("FROM"), DOTSTAR, L("WHERE")>> >>

RECURSIVE SumJoins(_, _)
SumJoins(s, k) ==
    IF k > Len(join_patterns) THEN 0
    ELSE ReFindallCount(join_patterns[k], s) + SumJoins(s, k + 1)

\* sum(len(re.findall(p, query_upper)) for p in join_patterns)
total_joins(query_upper) == SumJoins(query_upper, 1)

\* the loop over expensive_patterns marking the report expensive and nothing else
RECURSIVE ExpensiveLoop_flagonly(_, _, _)
ExpensiveLoop_flagonly(c, s, k) ==
    IF k > Len(expensive_patterns) THEN c
    ELSE IF ReSearch(expensive_patterns[k], s, FALSE)
         THEN ExpensiveLoop_flagonly([c EXCEPT !.is_expensive = TRUE], s, k + 1)
         ELSE ExpensiveLoop_flagonly(c, s, k + 1)

\* the loop over expensive_patterns, applied to the report c
RECURSIVE ExpensiveLoop(_, _, _)
ExpensiveLoop(c, s, k) ==
    IF k > Len(expensive_patterns) THEN c
    ELSE IF ReSearch(expensive_patterns[k], s, FALSE)
         THEN ExpensiveLoop([c EXCEPT !.is_expensive = TRUE,
                                      !.estimated_cost = IF @ = "low" THEN "high" ELSE @,
                                      !.warnings = Append(@, "Expensive subquery pattern detected")],
                            s, k + 1)
         ELSE ExpensiveLoop(c, s, k + 1)

\* the threshold test with the boundary on the wrong side
too_many_joins_ge(n) == n >= MAX_JOINS_THRESHOLD

\* "if total_joins > MAX_JOINS_THRESHOLD"
too_many_joins(n) == n > MAX_JOINS_THRESHOLD

analyze_query_complexity(query) ==
    LET query_upper == StripParens(Upper(query))
        c0 == [is_expensive |-> FALSE, join_count |-> 0, has_cross_join |-> FALSE,
               has_multiple_joins |-> FALSE, estimated_cost |-> "low", warnings |-> <<>>]
        c1 == IF ReSearch(CROSS_JOIN_PATTERN, query_upper, FALSE)
              THEN [c0 EXCEPT !.has_cross_join = TRUE, !.is_expensive = TRUE,
                              !.estimated_cost = "very_high",
                              !.warnings = Append(@, "Cross join detected")]
              ELSE c0
        n  == total_joins(query_upper)
        c2 == [c1 EXCEPT !.join_count = n]
        c3 == IF too_many_joins(n)
              THEN [c2 EXCEPT !.has_multiple_joins = TRUE, !.is_expensive = TRUE,
                              !.estimated_cost = "high",
                              !.warnings = Append(@, "Multiple joins detected (" \o ToString(n) \o ")")]
              ELSE c2
    IN  ExpensiveLoop(c3, query_upper, 1)

(***************************************************************************)
(* SQL validation: the five checks of is_safe_sql                          *)
(***************************************************************************)

\* check 1: "if not query"
check_nonempty(query) == query # ""

\* query.upper().strip()
normalize(query) == Strip(Upper(query))

\* check 2: no deny-list pattern is found in the normalized query
check_not_blocked(normalized_query) ==
    \A k \in 1..Len(BLOCKED_SQL_PATTERNS) :
        ~ReSearch(BLOCKED_SQL_PATTERNS[k], normalized_query, TRUE)

\* the schema check switched off
check_schema_prefix_off(normalized_query) == TRUE

\* check 3: the schema prefix, bare or quoted, occurs in the normalized query
check_schema_prefix(normalized_query) ==
    LET required_schema_prefix == Upper(DB_SCHEMA) \o "."
        quoted_schema_prefix == "\"" \o Upper(DB_SCHEMA) \o "\"."
    IN  ~(~Contains(normalized_query, required_schema_prefix)
          /\ ~Contains(normalized_query, quoted_schema_prefix))

\* the allow-list check switched off
check_allowed_off(normalized_query) == TRUE

\* check 4: the normalized query starts with an allow-listed keyword
check_allowed(normalized_query) ==
    \E k \in 1..Len(ALLOWED_SQL_PATTERNS) :
        ReMatch(ALLOWED_SQL_PATTERNS[k], normalized_query, TRUE)

\* check 5: the complexity estimator does not mark the raw query expensive
check_not_expensive(query) == ~analyze_query_complexity(query).is_expensive

\* the gate without its complexity check
is_safe_sql_no_complexity(query) ==
    LET normalized_query == normalize(query)
    IN  IF ~check_nonempty(query) THEN FALSE
        ELSE IF ~check_not_blocked(normalized_query) THEN FALSE
        ELSE IF ~check_schema_prefix(normalized_query) THEN FALSE
        ELSE IF ~check_allowed(normalized_query) THEN FALSE
        ELSE TRUE

is_safe_sql(query) ==
    LET normalized_query == normalize(query)
    IN  IF ~check_nonempty(query) THEN FALSE
        ELSE IF ~check_not_blocked(normalized_query) THEN FALSE
        ELSE IF ~check_schema_prefix(normalized_query) THEN FALSE
        ELSE IF ~check_allowed(normalized_query) THEN FALSE
        ELSE IF ~check_not_expensive(query) THEN FALSE
        ELSE TRUE

\* the logger.warning calls of is_safe_sql(query), in order: the text each
\* message starts with
is_safe_sql_log(query) ==
    LET normalized_query == normalize(query)
    IN  IF ~check_nonempty(query) THEN <<>>
        ELSE IF ~check_not_blocked(normalized_query) THEN <<"Blocked SQL pattern detected">>
        ELSE IF ~check_schema_prefix(normalized_query)
             THEN <<"SQL blocked - missing required schema prefix">>
        ELSE IF ~check_allowed(normalized_query) THEN <<>>
        ELSE IF ~check_not_expensive(query) THEN <<"Query blocked due to high complexity">>
        ELSE <<>>

(***************************************************************************)
(* Rendering of Python values: repr() and str()                            *)
(***************************************************************************)

\* repr() of one field value
ReprValue(f) ==
    CASE f.ty = "str"     -> "'" \o f.v \o "'"
      [] f.ty = "int"     -> f.v
      [] f.ty = "Decimal" -> "Decimal('" \o f.v \o "')"

RECURSIVE ReprFields(_, _)
ReprFields(row, i) ==
    IF i > Len(row) THEN ""
    ELSE (IF i > 1 THEN ", " ELSE "") \o "'" \o row[i].k \o "': " \o ReprValue(row[i])
         \o ReprFields(row, i + 1)

RECURSIVE ReprRows(_, _)
ReprRows(rows, i) ==
    IF i > Len(rows) THEN ""
    ELSE (IF i > 1 THEN ", " ELSE "") \o "{" \o ReprFields(rows[i], 1) \o "}"
         \o ReprRows(rows, i + 1)

\* str(value)
PyStr(val) ==
    CASE val.t = "None" -> "None"
      [] val.t = "str"  -> val.s
      [] val.t = "list" -> "[" \o ReprRows(val.rows, 1) \o "]"

\* bool(value): None, "" and [] are falsy
Truthy(val) ==
    CASE val.t = "None" -> FALSE
      [] val.t = "str"  -> val.s # ""
      [] val.t = "list" -> val.rows # <<>>

(***************************************************************************)
(* Database query execution                                                *)
(***************************************************************************)

\* What the database layer does with one statement: db.stage is where it
\* fails ("connect", "execute") or "ok"; db.msg is str(e); db.rows the result.
\* The statement reaches the server unless the connection itself failed.
DbSent(query, db) == IF db.stage = "connect" THEN <<>> ELSE <<query>>

\* safe_db_run that hands the statement over whatever the gate said
safe_db_run_ungated(query, safe, db) ==
    IF db.stage = "ok"
    THEN [ret |-> List(db.rows), raised |-> FALSE, sent |-> DbSent(query, db)]
    ELSE [ret |-> Str("Error: " \o db.msg), raised |-> FALSE, sent |-> DbSent(query, db)]

\* safe_db_run without its try/except: a failure of the database layer leaves
\* the function as an exception
safe_db_run_nocatch(query, safe, db) ==
    IF ~safe
    THEN [ret |-> Str("Error: Query blocked for security reasons"), raised |-> FALSE, sent |-> <<>>]
    ELSE IF db.stage = "ok"
         THEN [ret |-> List(db.rows), raised |-> FALSE, sent |-> DbSent(query, db)]
         ELSE [ret |-> None, raised |-> TRUE, sent |-> DbSent(query, db)]

\* safe_db_run(query); safe is the value its call of is_safe_sql(query)
\* returned. ret is the returned value, raised says whether an exception left
\* the function, sent lists the statements handed to the connection.
safe_db_run(query, safe, db) ==
    IF ~safe
    THEN [ret |-> Str("Error: Query blocked for security reasons"), raised |-> FALSE, sent |-> <<>>]
    ELSE IF db.stage = "ok"
         THEN [ret |-> List(db.rows), raised |-> FALSE, sent |-> DbSent(query, db)]
         ELSE [ret |-> Str("Error: " \o db.msg), raised |-> FALSE, sent |-> DbSent(query, db)]

\* the execute_sql_query tool
execute_sql_query(query, safe, db) ==
    LET r == safe_db_run(query, safe, db)
    IN  IF r.raised
        THEN [r EXCEPT !.ret = Str("Error: Failed to execute query - " \o db.msg), !.raised = FALSE]
        ELSE r

\* hashlib.md5(query.encode()).hexdigest(): the digest is named after the text
\* it was computed from; distinct texts of the model get distinct digests
get_query_hash(query) == "md5<" \o query \o ">"

\* json.dumps(result, default=str): values json cannot encode become strings
json_dumps(rows) ==
    [i \in 1..Len(rows) |->
        [j \in 1..Len(rows[i]) |->
            IF rows[i][j].ty \in {"str", "int"} THEN rows[i][j]
            ELSE [rows[i][j] EXCEPT !.ty = "str"]]]

\* json.loads of a stored entry
json_loads(entry) == List(entry)

\* cached_query_execution whose cache read is not inside a try block: an
\* exception of redis_client.get leaves the function
cached_query_execution_nocatch(query, safe, db, c, redis) ==
    LET direct == safe_db_run(query, safe, db)
        cache_key == "query_result:" \o get_query_hash(query)
        hit == redis = "up" /\ cache_key \in DOMAIN c
        store == direct.ret.t # "str" \/ ~StartsWith(direct.ret.s, "Error:")
    IN  IF redis = "none"
        THEN [ret |-> direct.ret, raised |-> direct.raised, sent |-> direct.sent, cache |-> c, hit |-> FALSE]
        ELSE IF redis = "broken"
        THEN [ret |-> None, raised |-> TRUE, sent |-> <<>>, cache |-> c, hit |-> FALSE]
        ELSE IF hit
        THEN [ret |-> json_loads(c[cache_key]), raised |-> FALSE, sent |-> <<>>, cache |-> c, hit |-> TRUE]
        ELSE [ret |-> direct.ret, raised |-> direct.raised, sent |-> direct.sent, hit |-> FALSE,
              cache |-> IF store /\ ~direct.raised
                        THEN [k \in DOMAIN c \cup {cache_key} |->
                                 IF k = cache_key THEN json_dumps(direct.ret.rows) ELSE c[k]]
                        ELSE c]

\* cached_query_execution(query) against the cache contents c; redis is
\* "none" (redis_client is None), "up" or "broken" (get and setex raise).
\* safe is what is_safe_sql(query) returns when safe_db_run is reached.
cached_query_execution(query, safe, db, c, redis) ==
    LET direct == safe_db_run(query, safe, db)
        cache_key == "query_result:" \o get_query_hash(query)
        \* a stored entry is a non-empty JSON text, hence truthy
        hit == redis = "up" /\ cache_key \in DOMAIN c
        store == direct.ret.t # "str" \/ ~StartsWith(direct.ret.s, "Error:")
    IN  IF redis = "none"
        THEN [ret |-> direct.ret, raised |-> direct.raised, sent |-> direct.sent, cache |-> c, hit |-> FALSE]
        ELSE IF hit
        THEN [ret |-> json_loads(c[cache_key]), raised |-> FALSE, sent |-> <<>>, cache |-> c, hit |-> TRUE]
        ELSE [ret |-> direct.ret, raised |-> direct.raised, sent |-> direct.sent, hit |-> FALSE,
              cache |-> IF store /\ redis = "up" /\ ~direct.raised
                        THEN [k \in DOMAIN c \cup {cache_key} |->
                                 IF k = cache_key THEN json_dumps(direct.ret.rows) ELSE c[k]]
                        ELSE c]

\* f"schema:{DB_SCHEMA}"
schema_cache_key == "schema:" \o DB_SCHEMA

\* the wrapper cache_schema puts around get_dynamic_schema_representation;
\* result is what the undecorated function returns when it is called. A
\* stored text counts as a hit unless it is empty ("if cached").
cache_schema(result, c, redis) ==
    LET hit == redis = "up" /\ schema_cache_key \in DOMAIN c /\ c[schema_cache_key] # ""
    IN  IF redis = "none"
        THEN [ret |-> result, raised |-> FALSE, cache |-> c, hit |-> FALSE]
        ELSE IF hit
        THEN [ret |-> c[schema_cache_key], raised |-> FALSE, cache |-> c, hit |-> TRUE]
        ELSE [ret |-> result, raised |-> FALSE, hit |-> FALSE,
              cache |-> IF redis = "up"
                        THEN [k \in DOMAIN c \cup {schema_cache_key} |->
                                 IF k = schema_cache_key THEN result ELSE c[k]]
                        ELSE c]

(***************************************************************************)
(* Workflow: messages and the add_messages reducer                         *)
(***************************************************************************)

\* a message not yet stored in the trace has id 0 (no id)
HumanMessage(content) == [id |-> 0, type |-> "human", content |-> content, tool_call |-> ""]

AIMessage(content) == [id |-> 0, type |-> "ai", content |-> content, tool_call |-> ""]

\* AIMessage(content="", tool_calls=[{name: execute_sql_query, args: {query}}])
ToolCallMessage(query) == [id |-> 0, type |-> "ai", content |-> "", tool_call |-> query]

ToolMessage(content) == [id |-> 0, type |-> "tool", content |-> content, tool_call |-> ""]

\* a channel without the reducer: the returned list replaces the trace
add_messages_overwrite(left, right) == [k \in 1..Len(right) |-> [right[k] EXCEPT !.id = k]]

\* add_messages(left, right): a message of right whose id is already in left
\* replaces that message in place; any other is appended under a fresh id
add_messages(left, right) ==
    LET known(m) == m.id # 0 /\ \E i \in 1..Len(left) : left[i].id = m.id
        update(i) == {j \in 1..Len(right) : right[j].id = left[i].id}
        merged == [i \in 1..Len(left) |->
                     IF update(i) # {} THEN right[SetMax(update(i))] ELSE left[i]]
        new == SelectSeq(right, LAMBDA m : ~known(m))
    IN  merged \o [k \in 1..Len(new) |-> [new[k] EXCEPT !.id = Len(left) + k]]

\* the graph writes a node's returned state to the channels: every key takes
\* the returned value, messages go through the reducer
WriteState(old, ret) == [ret EXCEPT !.messages = add_messages(old.messages, ret.messages)]

(***************************************************************************)
(* Truncation of a result before it goes to the answer formatter           *)
(***************************************************************************)

MAX_ROWS_FOR_LLM == 20

MAX_COLS_FOR_LLM == 20

MAX_DB_RESULT_STRING_LENGTH == 6000

TRUNCATION_MARKER == "\n... (truncated)"

\* json.dumps of one value; default=str turns what json cannot encode into
\* a string
JsonValue(f) == IF f.ty = "int" THEN f.v ELSE "\"" \o f.v \o "\""

RECURSIVE JsonFields(_, _, _)
JsonFields(row, i, sep) ==
    IF i > Len(row) THEN ""
    ELSE (IF i > 1 THEN sep ELSE "") \o "\"" \o row[i].k \o "\": " \o JsonValue(row[i])
         \o JsonFields(row, i + 1, sep)

RECURSIVE JsonRows(_, _, _)
JsonRows(rows, i, indent) ==
    IF i > Len(rows) THEN ""
    ELSE (IF i > 1 THEN (IF indent THEN ",\n  " ELSE ", ") ELSE "")
         \o (IF rows[i] = <<>> THEN "{}"
             ELSE IF indent THEN "{\n    " \o JsonFields(rows[i], 1, ",\n    ") \o "\n  }"
             ELSE "{" \o JsonFields(rows[i], 1, ", ") \o "}")
         \o JsonRows(rows, i + 1, indent)

\* json.dumps(rows) of a list of dicts, with indent=2 or without indent
JsonText(rows, indent) ==
    IF rows = <<>> THEN "[]"
    ELSE IF indent THEN "[\n  " \o JsonRows(rows, 1, TRUE) \o "\n]"
    ELSE "[" \o JsonRows(rows, 1, FALSE) \o "]"

RECURSIVE FirstNonSpace(_, _)
FirstNonSpace(s, i) == IF i > Len(s) \/ ~IsSpace(Char(s, i)) THEN i ELSE FirstNonSpace(s, i + 1)

RECURSIVE LastNonSpace(_, _)
LastNonSpace(s, i) == IF i < 1 \/ ~IsSpace(Char(s, i)) THEN i ELSE LastNonSpace(s, i - 1)

\* db_result.strip().startswith("[") and db_result.strip().endswith("]")
IsBracketed(text) ==
    LET a == FirstNonSpace(text, 1)
        b == LastNonSpace(text, Len(text))
    IN  a <= b /\ Char(text, a) = "[" /\ Char(text, b) = "]"

\* A text that reaches the truncation comes with what the two parsers make
\* of it: form says how it was written ("repr": str() of a list of dicts,
\* "json": a JSON array of objects, "scalar": a Python literal that is no
\* list, "text": anything else) and rows is the list it denotes.
\* json.loads accepts a JSON array; of the str() forms it accepts only those
\* without a quoted key or value, since str() quotes with ' and JSON with ".
json_loads_ok(in) ==
    \/ in.form = "json"
    \/ in.form = "repr" /\ \A i \in 1..Len(in.rows) : in.rows[i] = <<>>

\* ast.literal_eval accepts Python literals
literal_eval_ok(in) == in.form \in {"repr", "scalar"}

\* rows[:MAX_ROWS_FOR_LLM], each cut to its first MAX_COLS_FOR_LLM fields
result_rows(rows) ==
    [i \in 1..(IF Len(rows) < MAX_ROWS_FOR_LLM THEN Len(rows) ELSE MAX_ROWS_FOR_LLM) |->
        SubSeq(rows[i], 1, IF Len(rows[i]) < MAX_COLS_FOR_LLM THEN Len(rows[i]) ELSE MAX_COLS_FOR_LLM)]

\* truncate_db_result_for_llm(db_result, state) for db_result = in.val;
\* ret and notice are the returned pair, raised says an exception left it
truncate_db_result_for_llm(in) ==
    IF ~Truthy(in.val)
    THEN [ret |-> in.val, notice |-> "", raised |-> FALSE]
    ELSE LET text == in.val.s
             parsed == IF IsBracketed(text) THEN json_loads_ok(in) ELSE literal_eval_ok(in)
         IN  IF ~parsed
             THEN \* the except branch: the text itself, cut to the budget
                  IF Len(text) > MAX_DB_RESULT_STRING_LENGTH
                  THEN [ret |-> Str(SubSeq(text, 1, MAX_DB_RESULT_STRING_LENGTH) \o TRUNCATION_MARKER),
                        notice |-> "Results truncated to fit the LLM input limit.",
                        raised |-> FALSE]
                  ELSE [ret |-> Str(text), notice |-> "", raised |-> FALSE]
             ELSE IF in.form = "scalar"
             THEN \* len(rows) of a number, rows[:n] of a dict
                  [ret |-> None, notice |-> "", raised |-> TRUE]
             ELSE LET num_rows == Len(in.rows)
                      full == JsonText(result_rows(in.rows), TRUE)
                      was_truncated == Len(full) > MAX_DB_RESULT_STRING_LENGTH
                      result_str == IF was_truncated
                                    THEN SubSeq(full, 1, MAX_DB_RESULT_STRING_LENGTH) \o TRUNCATION_MARKER
                                    ELSE full
                      shown == IF num_rows < MAX_ROWS_FOR_LLM THEN num_rows ELSE MAX_ROWS_FOR_LLM
                      notice == IF num_rows > MAX_ROWS_FOR_LLM \/ was_truncated
                                THEN "Showing first " \o ToString(shown) \o " of " \o ToString(num_rows)
                                     \o " rows, first " \o ToString(MAX_COLS_FOR_LLM)
                                     \o " columns. Download full results below."
                                ELSE ""
                  IN  [ret |-> Str(result_str), notice |-> notice, raised |-> FALSE]

\* prompt_input["db_result"] of format_final_answer_node
formatter_input(truncated_result, notice) ==
    IF notice # "" THEN notice \o "\n" \o PyStr(truncated_result) ELSE PyStr(truncated_result)

(***************************************************************************)
(* Workflow: nodes and routing                                             *)
(***************************************************************************)

is_db_error(result) ==
    IF result.t = "None" THEN FALSE
    ELSE result.t = "str" /\ StartsWith(Strip(result.s), "Error:")

start_node(state) ==
    [state EXCEPT !.db_schema = "", !.generated_sql = "", !.db_result = None,
                  !.error_message = None, !.correction_attempts = 0,
                  !.messages = <<HumanMessage(state.user_input)>>]

\* schema is what get_dynamic_schema_representation returned
fetch_schema_node(state, schema) ==
    IF StartsWith(schema, "Error:")
    THEN [state EXCEPT !.db_schema = "", !.error_message = Str("Schema Fetch Failed: " \o schema)]
    ELSE [state EXCEPT !.db_schema = schema]

\* the generator is called only when a schema is present
generate_sql_calls_llm(state) == state.db_schema # ""

\* content is llm_response.content
generate_sql_node(state, content) ==
    IF ~generate_sql_calls_llm(state)
    THEN [state EXCEPT !.error_message = Str("Cannot generate SQL: Database schema is missing.")]
    ELSE LET sql_query == Strip(content)
         IN  [state EXCEPT !.generated_sql = sql_query,
                           !.messages = state.messages \o <<AIMessage("Generated SQL: " \o sql_query)>>]

\* the tool invoked for whatever candidate there is
execute_sql_calls_tool_always(state) == TRUE

\* the tool is invoked only for a non-empty candidate
execute_sql_calls_tool(state) == state.generated_sql # ""

\* tool_result is what execute_sql_query returned
execute_sql_node(state, tool_result) ==
    IF ~execute_sql_calls_tool(state)
    THEN [state EXCEPT !.db_result = Str("Error: No SQL query generated."),
                       !.error_message = Str("No SQL query generated.")]
    ELSE [state EXCEPT !.raw_db_result = IF tool_result.t = "list" THEN tool_result ELSE None,
                       !.db_result = Str(PyStr(tool_result)),
                       !.messages = state.messages \o
                           <<ToolCallMessage(state.generated_sql), ToolMessage(PyStr(tool_result))>>]

\* the correction node counting an attempt twice
correction_node_twice(state, content) ==
    LET corrected_sql == Strip(content)
    IN  [state EXCEPT !.generated_sql = corrected_sql,
                      !.correction_attempts = state.correction_attempts + 2,
                      !.db_result = None,
                      !.error_message = None,
                      !.messages = state.messages \o
                          <<AIMessage("Attempting corrected SQL: " \o corrected_sql)>>]

\* the correction node without the increment of the counter
correction_node_nocount(state, content) ==
    LET corrected_sql == Strip(content)
    IN  [state EXCEPT !.generated_sql = corrected_sql,
                      !.db_result = None,
                      !.error_message = None,
                      !.messages = state.messages \o
                          <<AIMessage("Attempting corrected SQL: " \o corrected_sql)>>]

\* the prompt's arguments with the error message in place of the result
correction_prompt_args_errmsg(state) ==
    [schema |-> state.db_schema, user_input |-> state.user_input,
     sql_query |-> state.generated_sql, db_error |-> state.error_message]

\* the dict handed to sql_correction_prompt.invoke
correction_prompt_args(state) ==
    [schema |-> state.db_schema, user_input |-> state.user_input,
     sql_query |-> state.generated_sql, db_error |-> state.db_result]

\* the correction node counting down instead of up
correction_node_countdown(state, content) ==
    LET corrected_sql == Strip(content)
    IN  [state EXCEPT !.generated_sql = corrected_sql,
                      !.correction_attempts = state.correction_attempts - 1,
                      !.db_result = None,
                      !.error_message = None,
                      !.messages = state.messages \o
                          <<AIMessage("Attempting corrected SQL: " \o corrected_sql)>>]

\* content is llm_response.content, the reply to the correction prompt
correction_node(state, content) ==
    LET corrected_sql == Strip(content)
    IN  [state EXCEPT !.generated_sql = corrected_sql,
                      !.correction_attempts = state.correction_attempts + 1,
                      !.db_result = None,
                      !.error_message = None,
                      !.messages = state.messages \o
                          <<AIMessage("Attempting corrected SQL: " \o corrected_sql)>>]

\* state.get("error_message", ...) yields None when the key holds None, and
\* '"Schema Fetch Failed" in None' raises TypeError
handle_error_raises(state) == state.error_message.t = "None"

\* the error handler that also clears the last result
handle_error_node_clearing(state) ==
    LET error_msg == state.error_message.s
        final_content ==
            IF Contains(error_msg, "Schema Fetch Failed")
            THEN "Sorry, I could not process your request because I failed to retrieve the database schema information. Error: " \o error_msg
            ELSE IF state.correction_attempts >= MAX_CORRECTION_ATTEMPTS
            THEN "Sorry, I could not generate a working SQL query for your request after "
                 \o ToString(MAX_CORRECTION_ATTEMPTS) \o " attempts. Last error: " \o PyStr(state.db_result)
            ELSE "Sorry, an unexpected error occurred: " \o error_msg
    IN  [state EXCEPT !.db_result = None,
                      !.messages = state.messages \o <<AIMessage(final_content)>>]

handle_error_node(state) ==
    LET error_msg == state.error_message.s
        final_content ==
            IF Contains(error_msg, "Schema Fetch Failed")
            THEN "Sorry, I could not process your request because I failed to retrieve the database schema information. Error: " \o error_msg
            ELSE IF state.correction_attempts >= MAX_CORRECTION_ATTEMPTS
            THEN "Sorry, I could not generate a working SQL query for your request after "
                 \o ToString(MAX_CORRECTION_ATTEMPTS) \o " attempts. Last error: " \o PyStr(state.db_result)
            ELSE "Sorry, an unexpected error occurred: " \o error_msg
    IN  [state EXCEPT !.messages = state.messages \o <<AIMessage(final_content)>>]

\* on an error result the answer is state.get("error_message", ...); when the
\* key holds None, AIMessage(content=None) is refused by the message model
format_answer_raises(state) == is_db_error(state.db_result) /\ state.error_message.t = "None"

\* the answer formatter is called unless the result is an error or None
format_answer_calls_llm(state) == ~is_db_error(state.db_result) /\ state.db_result.t # "None"

\* content is the formatter's llm_response.content; export is the outcome of
\* the POST to the export service: "ok", "http_error" or "exception"
format_final_answer_node(state, content, export) ==
    LET download_links ==
            IF Truthy(state.raw_db_result)
            THEN CASE export = "ok" -> "\n\nDownload Full Results:\n- CSV: http://localhost:8000/download/csv\n- Excel: http://localhost:8000/download/xlsx"
                   [] export = "exception" -> "\n\n Full results available but export service failed. Try refining your query or contact support."
                   [] export = "http_error" -> ""
            ELSE IF state.raw_db_result.t = "None"
                 THEN "\n\n Full download not available (non-dataset result)"
                 ELSE "\n\n Full download not available (empty dataset)"
        final_answer_content ==
            IF is_db_error(state.db_result) THEN PyStr(state.error_message)
            ELSE IF state.db_result.t = "None" THEN "No database results found."
            ELSE Strip(content) \o download_links
    IN  [state EXCEPT !.messages = state.messages \o <<AIMessage(final_answer_content)>>]

\* the router that never takes the error edge
decide_after_schema_fetch_never(state) == "generate_sql"

decide_after_schema_fetch(state) ==
    IF Truthy(state.error_message) /\ Contains(state.error_message.s, "Schema Fetch Failed")
    THEN "handle_error"
    ELSE "generate_sql"

\* the router with the attempt ceiling off by one
decide_after_execution_late(state) ==
    IF is_db_error(state.db_result)
    THEN IF state.correction_attempts <= MAX_CORRECTION_ATTEMPTS
         THEN "attempt_correction"
         ELSE "handle_error"
    ELSE "format_answer"

\* the router that takes exhausted attempts for a success
decide_after_execution_lenient(state) ==
    IF is_db_error(state.db_result)
    THEN IF state.correction_attempts < MAX_CORRECTION_ATTEMPTS
         THEN "attempt_correction"
         ELSE "format_answer"
    ELSE "format_answer"

decide_after_execution(state) ==
    IF is_db_error(state.db_result)
    THEN IF state.correction_attempts < MAX_CORRECTION_ATTEMPTS
         THEN "attempt_correction"
         ELSE "handle_error"
    ELSE "format_answer"

\* decide_after_execution assigns state["error_message"] on its way to
\* handle_error. The router works on the dict the graph hands it; whether
\* that assignment reaches the channel the next node reads is up to the
\* graph library, so both outcomes are possible (kept says which).
after_routing(state, kept) ==
    IF decide_after_execution(state) = "handle_error" /\ kept
    THEN [state EXCEPT !.error_message =
             Str("Max correction attempts (" \o ToString(MAX_CORRECTION_ATTEMPTS) \o ") reached.")]
    ELSE state


(***************************************************************************)
(* Inputs of the model                                                     *)
(***************************************************************************)

\* direct calls of the executor outside the workflow (health checks)
MaxDirectCalls == 2

UserInputs == {"List customers"}

\* what the undecorated get_dynamic_schema_representation may return
SchemaResults ==
    { "CREATE TABLE info.customers (name text)",
      "Error: Could not fetch schema information. connection refused",
      "" }

\* texts the generator may return
LlmTexts ==
    { " SELECT name FROM info.customers\n",
      "SELECT * FROM customers",
      "DROP TABLE info.customers",
      "" }

\* a call of the generator returns a text or throws
LlmOutcomes == {[ok |-> TRUE, content |-> t] : t \in LlmTexts} \cup {[ok |-> FALSE, content |-> ""]}

RowSets ==
    { <<>>,
      << <<[k |-> "name", ty |-> "str", v |-> "Error: none"], [k |-> "total", ty |-> "Decimal", v |-> "10.5"]>>,
         <<[k |-> "name", ty |-> "str", v |-> "Bob"], [k |-> "total", ty |-> "int", v |-> "3"]>> >> }

DbErrors == {"permission denied for table customers"}

\* behaviours of the database layer for one statement
DbOutcomes ==
    {[stage |-> "ok", msg |-> "", rows |-> rs] : rs \in RowSets}
    \cup {[stage |-> "execute", msg |-> m, rows |-> <<>>] : m \in DbErrors}
    \cup {[stage |-> "connect", msg |-> "connection refused", rows |-> <<>>]}

\* a call of the answer formatter returns a text or throws
AnswerOutcomes == {[ok |-> TRUE, content |-> " There are two customers.\n"], [ok |-> FALSE, content |-> ""]}

ExportOutcomes == {"ok", "http_error", "exception"}

\* query texts of direct callers (monitoring.py, streamlit_app.py, db_utils manual block)
DirectQueries ==
    { "SELECT 1 as health_check",
      "SELECT 1 AS ok FROM info.users LIMIT 1",
      "DROP TABLE info.customers" }

\* the state the caller hands to app.invoke: main.py passes the clean one;
\* the other carries values left over from an earlier run
CallerStates ==
    { [messages |-> <<>>, user_input |-> u, db_schema |-> "", generated_sql |-> "",
       db_result |-> None, raw_db_result |-> None, error_message |-> None,
       correction_attempts |-> 0] : u \in UserInputs }
    \cup
    { [messages |-> <<[HumanMessage("earlier question") EXCEPT !.id = 1]>>, user_input |-> u,
       db_schema |-> "stale schema", generated_sql |-> "DROP TABLE info.customers",
       db_result |-> Str("Error: stale"), raw_db_result |-> List(<< <<[k |-> "name", ty |-> "str", v |-> "Old"]>> >>),
       error_message |-> Str("Schema Fetch Failed: stale"),
       correction_attempts |-> 2] : u \in UserInputs }

\* no correction has called the generator yet
NoCorrection == [schema |-> "", user_input |-> "", sql_query |-> "", db_error |-> None, content |-> ""]

\* redis is the state of the cache backend during the call; direct is the
\* value the computation behind the cache returns for the same collaborator
\* outcomes (safe_db_run(query), the undecorated schema fetch)
NoCall == [fn |-> "none", query |-> "", safe |-> FALSE, db |-> [stage |-> "ok", msg |-> "", rows |-> <<>>],
           ret |-> None, raised |-> FALSE, hit |-> FALSE, redis |-> "none", direct |-> None]

NoReport == [is_expensive |-> FALSE, join_count |-> 0, has_cross_join |-> FALSE,
             has_multiple_joins |-> FALSE, estimated_cost |-> "none", warnings |-> <<>>]

EmptyCache == [k \in {} |-> <<>>]

NoChecks == [nonempty |-> FALSE, not_blocked |-> FALSE, schema_prefix |-> FALSE,
             allowed |-> FALSE, not_expensive |-> FALSE, log |-> <<>>]

(***************************************************************************)
(* State                                                                   *)
(***************************************************************************)

VARIABLES
    state,      \* the WorkflowState held by the graph's channels
    pc,         \* the node to run next: START, a node name, END or RAISED;
                \* execute_sql:run inside ExecuteSQL after the gate returned,
                \* execute_sql:blocked while it waits for the database;
                \* DIRECT in a process that calls the executor without the workflow
    lastNode,   \* the node that ran last
    llmThrew,   \* a generator call has thrown
    nExec,      \* executions of the ExecuteSQL node in this run
    nCorr,      \* executions of the AttemptCorrection node in this run
    allErr,     \* every execution so far produced an error result
    gatePassed, \* inside ExecuteSQL: what is_safe_sql returned for the candidate
    lastCorrection, \* the last call of the generator by AttemptCorrection:
                \* the prompt's arguments and the reply's content
    dbSent,     \* the statements handed to a database connection so far
    gateLog,    \* the calls of is_safe_sql so far: <<text, returned value>>
    lastCall,   \* the last call of safe_db_run / execute_sql_query / cached_query_execution
    cache,      \* the query-result cache: key -> stored entry
    redis,      \* "none", "up" or "broken"
    nDirect,    \* direct calls made so far
    qin,        \* the query under analysis: its construction
    query,      \* ... and its text
    gphase,     \* "input", "analyzed", "gated" ("off" outside the gate specification)
    report,     \* the complexity report of query
    checks,     \* what each check of the gate says about query
    verdict,    \* is_safe_sql(query) as "safe"/"unsafe" ("none" before the call)
    tin,        \* the result under truncation: its text and what it denotes
    tphase,     \* "input", "truncated", "raised", "prompted" ("off" outside the truncation specification)
    tout,       \* what truncate_db_result_for_llm returned for tin
    tprompt,    \* the db_result argument of the answer prompt
    squery,     \* the query text the concurrent sessions execute
    sredis,     \* "none" (redis_client is None) or "up", fixed when the module is imported
    sloc,       \* per session: its position inside cached_query_execution
    sread,      \* per session: the entry its cache read returned (NoEntry for none)
    sres,       \* per session: what its call of safe_db_run returned
    sret,       \* per session: what cached_query_execution returned
    checkedOut, \* connections of the pool that are checked out
    scache,     \* the entry under the query's cache key (NoEntry when absent)
    lastWrite,  \* the value the last successful setex on that key was given
    authRedis,  \* the export API's redis_client: "none", "up" or "down"
    tokens,     \* the refresh tokens stored under refresh:<token>: token -> email
    issued,     \* refresh tokens created by login so far
    revoked,    \* refresh tokens a logout deleted
    expired,    \* refresh tokens whose time-to-live ran out
    authLog     \* the last request answered: operation, token, status, access token

wfVars == <<state, pc, lastNode, llmThrew, nExec, nCorr, allErr, gatePassed, lastCorrection>>

dbVars == <<dbSent, gateLog, lastCall, cache, redis, nDirect>>

gateVars == <<qin, query, gphase, report, checks, verdict>>

truncVars == <<tin, tphase, tout, tprompt>>

sessVars == <<squery, sredis, sloc, sread, sres, sret, checkedOut, scache, lastWrite>>

authVars == <<authRedis, tokens, issued, revoked, expired, authLog>>

vars == <<state, pc, lastNode, llmThrew, nExec, nCorr, allErr, gatePassed, lastCorrection,
          dbSent, gateLog, lastCall, cache, redis, nDirect, qin, query, gphase, report, checks, verdict,
          tin, tphase, tout, tprompt,
          squery, sredis, sloc, sread, sres, sret, checkedOut, scache, lastWrite,
          authRedis, tokens, issued, revoked, expired, authLog>>

NoQin == [lead |-> "", cols |-> "", qual |-> "", joins |-> 0, kind |-> "", inj |-> "", pos |-> "none", tail |-> ""]

GateIdle ==
    /\ qin = NoQin
    /\ query = ""
    /\ gphase = "off"
    /\ report = NoReport
    /\ checks = NoChecks
    /\ verdict = "none"

\* nothing has been handed to the truncation
NoTruncInput == [form |-> "text", rows |-> <<>>, val |-> None]

NoTruncOutput == [ret |-> None, notice |-> "", raised |-> FALSE]

TruncIdle ==
    /\ tin = NoTruncInput
    /\ tphase = "off"
    /\ tout = NoTruncOutput
    /\ tprompt = ""

\* the sessions a server process runs at the same time
NSessions == 3

Sessions == 1..NSessions

\* nothing is stored under the key
NoEntry == [present |-> FALSE, rows |-> <<>>]

SessIdle ==
    /\ squery = ""
    /\ sredis = "none"
    /\ sloc = [s \in Sessions |-> "off"]
    /\ sread = [s \in Sessions |-> NoEntry]
    /\ sres = [s \in Sessions |-> None]
    /\ sret = [s \in Sessions |-> None]
    /\ checkedOut = 0
    /\ scache = NoEntry
    /\ lastWrite = NoEntry

NoRequest == [op |-> "none", token |-> "", status |-> 0, access |-> ""]

\* no request has reached the export API
AuthIdle ==
    /\ authRedis = "none"
    /\ tokens = <<>>
    /\ issued = {}
    /\ revoked = {}
    /\ expired = {}
    /\ authLog = NoRequest


Init ==
    /\ state \in CallerStates
    /\ pc \in {"START", "DIRECT"}
    /\ lastNode = "none"
    /\ llmThrew = FALSE
    /\ nExec = 0
    /\ nCorr = 0
    /\ allErr = TRUE
    /\ gatePassed = FALSE
    /\ lastCorrection = NoCorrection
    /\ dbSent = {}
    /\ gateLog = {}
    /\ lastCall = NoCall
    /\ cache = EmptyCache
    /\ redis \in {"none", "up"}
    /\ pc = "START" => (redis = "up")
    /\ pc = "DIRECT" => (state.correction_attempts = 0)
    /\ nDirect = 0
    /\ GateIdle
    /\ TruncIdle
    /\ SessIdle
    /\ AuthIdle

(***************************************************************************)
(* Workflow actions: one per node, with the edge that follows it           *)
(***************************************************************************)

StartNode ==
    /\ pc = "START"
    /\ \E ret \in {start_node(state)} : state' = WriteState(state, ret)
    /\ pc' = "fetch_schema"
    /\ lastNode' = "start"
    /\ UNCHANGED <<llmThrew, nExec, nCorr, allErr, gatePassed, lastCorrection>>
    /\ UNCHANGED dbVars
    /\ UNCHANGED gateVars
    /\ UNCHANGED truncVars
    /\ UNCHANGED sessVars
    /\ UNCHANGED authVars

FetchSchemaNode ==
    /\ pc = "fetch_schema"
    /\ \E result \in SchemaResults :
       \E w \in {cache_schema(result, cache, redis)} :
          /\ \E ret \in {fetch_schema_node(state, w.ret)} : state' = WriteState(state, ret)
          /\ pc' = decide_after_schema_fetch(state')
          /\ cache' = w.cache
          /\ lastCall' = [fn |-> "get_dynamic_schema_representation", query |-> "", safe |-> FALSE,
                          db |-> NoCall.db, ret |-> Str(w.ret), raised |-> w.raised, hit |-> w.hit,
                          redis |-> redis, direct |-> Str(result)]
    /\ lastNode' = "fetch_schema"
    /\ UNCHANGED <<llmThrew, nExec, nCorr, allErr, gatePassed, lastCorrection>>
    /\ UNCHANGED <<dbSent, gateLog, redis, nDirect>>
    /\ UNCHANGED gateVars
    /\ UNCHANGED truncVars
    /\ UNCHANGED sessVars
    /\ UNCHANGED authVars

GenerateSqlNode ==
    /\ pc = "generate_sql"
    /\ lastNode' = "generate_sql"
    /\ \E out \in LlmOutcomes :
          IF generate_sql_calls_llm(state) /\ ~out.ok
          THEN /\ pc' = "RAISED"
               /\ llmThrew' = TRUE
               /\ UNCHANGED state
          ELSE /\ \E ret \in {generate_sql_node(state, out.content)} : state' = WriteState(state, ret)
               /\ pc' = "execute_sql"
               /\ UNCHANGED llmThrew
    /\ UNCHANGED <<nExec, nCorr, allErr, gatePassed, lastCorrection>>
    /\ UNCHANGED dbVars
    /\ UNCHANGED gateVars
    /\ UNCHANGED truncVars
    /\ UNCHANGED sessVars
    /\ UNCHANGED authVars

\* ExecuteSQL up to the return of is_safe_sql inside safe_db_run. With no
\* candidate the node returns at once and the edge is taken.
ExecuteSqlGateReturning(passed) ==
    /\ pc = "execute_sql"
    /\ lastNode' = "execute_sql"
    /\ nExec' = nExec + 1
    /\ IF execute_sql_calls_tool(state)
       THEN /\ gatePassed' = passed
            /\ gateLog' = gateLog \cup {<<state.generated_sql, gatePassed'>>}
            /\ pc' = "execute_sql:run"
            /\ UNCHANGED <<state, allErr>>
       ELSE \E ret \in {execute_sql_node(state, None)} :
            \E next \in {WriteState(state, ret)} :
            \E kept \in BOOLEAN :
               /\ state' = after_routing(next, kept)
               /\ pc' = decide_after_execution(next)
               /\ allErr' = (allErr /\ is_db_error(next.db_result))
               /\ UNCHANGED <<gatePassed, gateLog>>
    /\ UNCHANGED <<llmThrew, nCorr, lastCorrection, dbSent, lastCall, cache, redis, nDirect>>
    /\ UNCHANGED gateVars
    /\ UNCHANGED truncVars
    /\ UNCHANGED sessVars
    /\ UNCHANGED authVars

ExecuteSqlGate == ExecuteSqlGateReturning(is_safe_sql(state.generated_sql))

\* ExecuteSQL from the return of is_safe_sql: the rest of safe_db_run and of
\* the tool, the node's return, and the edge decide_after_execution chooses
ExecuteSqlRun ==
    /\ pc = "execute_sql:run"
    /\ \E db \in DbOutcomes :
       \E tool \in {execute_sql_query(state.generated_sql, gatePassed, db)} :
       \E ret \in {execute_sql_node(state, tool.ret)} :
       \E next \in {WriteState(state, ret)} :
       \E kept \in BOOLEAN :
          /\ state' = after_routing(next, kept)
          /\ pc' = decide_after_execution(next)
          /\ allErr' = (allErr /\ is_db_error(next.db_result))
          /\ dbSent' = dbSent \cup {tool.sent[i] : i \in 1..Len(tool.sent)}
          /\ lastCall' = [fn |-> "execute_sql_query", query |-> state.generated_sql, safe |-> gatePassed,
                          db |-> db, ret |-> tool.ret, raised |-> tool.raised, hit |-> FALSE,
                          redis |-> redis, direct |-> tool.ret]
    /\ gatePassed' = FALSE
    /\ UNCHANGED <<lastNode, llmThrew, nExec, nCorr, lastCorrection, gateLog, cache, redis, nDirect>>
    /\ UNCHANGED gateVars
    /\ UNCHANGED truncVars
    /\ UNCHANGED sessVars
    /\ UNCHANGED authVars

\* ExecuteSQL when the database accepts the statement and never answers it.
\* safe_db_run calls conn.execute(stmt) and waits: its timeout parameter is
\* not used in its body and no timeout is set on the engine or the
\* connection, so nothing in the program ends the wait.
ExecuteSqlNoAnswer ==
    /\ pc = "execute_sql:run"
    /\ gatePassed
    /\ pc' = "execute_sql:blocked"
    /\ dbSent' = dbSent \cup {state.generated_sql}
    /\ UNCHANGED <<state, lastNode, llmThrew, nExec, nCorr, allErr, gatePassed, lastCorrection>>
    /\ UNCHANGED <<gateLog, lastCall, cache, redis, nDirect>>
    /\ UNCHANGED gateVars
    /\ UNCHANGED truncVars
    /\ UNCHANGED sessVars
    /\ UNCHANGED authVars

CorrectionNode ==
    /\ pc = "attempt_correction"
    /\ lastNode' = "attempt_correction"
    /\ \E out \in LlmOutcomes :
          IF ~out.ok
          THEN /\ pc' = "RAISED"
               /\ llmThrew' = TRUE
               /\ UNCHANGED <<state, nCorr, lastCorrection>>
          ELSE /\ \E ret \in {correction_node(state, out.content)} : state' = WriteState(state, ret)
               /\ \E args \in {correction_prompt_args(state)} :
                     lastCorrection' = [schema |-> args.schema, user_input |-> args.user_input,
                                        sql_query |-> args.sql_query, db_error |-> args.db_error,
                                        content |-> out.content]
               /\ pc' = "execute_sql"
               /\ nCorr' = nCorr + 1
               /\ UNCHANGED llmThrew
    /\ UNCHANGED <<nExec, allErr, gatePassed>>
    /\ UNCHANGED dbVars
    /\ UNCHANGED gateVars
    /\ UNCHANGED truncVars
    /\ UNCHANGED sessVars
    /\ UNCHANGED authVars

FormatAnswerNode ==
    /\ pc = "format_answer"
    /\ lastNode' = "format_answer"
    /\ \E out \in AnswerOutcomes, export \in ExportOutcomes :
          IF format_answer_raises(state) \/ (format_answer_calls_llm(state) /\ ~out.ok)
          THEN /\ pc' = "RAISED"
               /\ llmThrew' = (llmThrew \/ ~format_answer_raises(state))
               /\ UNCHANGED state
          ELSE /\ \E ret \in {format_final_answer_node(state, out.content, export)} : state' = WriteState(state, ret)
               /\ pc' = "END"
               /\ UNCHANGED llmThrew
    /\ UNCHANGED <<nExec, nCorr, allErr, gatePassed, lastCorrection>>
    /\ UNCHANGED dbVars
    /\ UNCHANGED gateVars
    /\ UNCHANGED truncVars
    /\ UNCHANGED sessVars
    /\ UNCHANGED authVars

HandleErrorNode ==
    /\ pc = "handle_error"
    /\ lastNode' = "handle_error"
    /\ IF handle_error_raises(state)
       THEN /\ pc' = "RAISED"
            /\ UNCHANGED state
       ELSE /\ \E ret \in {handle_error_node(state)} : state' = WriteState(state, ret)
            /\ pc' = "END"
    /\ UNCHANGED <<llmThrew, nExec, nCorr, allErr, gatePassed, lastCorrection>>
    /\ UNCHANGED dbVars
    /\ UNCHANGED gateVars
    /\ UNCHANGED truncVars
    /\ UNCHANGED sessVars
    /\ UNCHANGED authVars

(***************************************************************************)
(* Direct callers of the executor and of the cached executor               *)
(***************************************************************************)

DirectSafeDbRun ==
    /\ pc = "DIRECT"
    /\ nDirect < MaxDirectCalls
    /\ \E q \in DirectQueries :
       \E safe \in {is_safe_sql(q)} :
       \E db \in DbOutcomes :
       \E run \in {safe_db_run(q, safe, db)} :
          /\ dbSent' = dbSent \cup {run.sent[i] : i \in 1..Len(run.sent)}
          /\ gateLog' = gateLog \cup {<<q, safe>>}
          /\ lastCall' = [fn |-> "safe_db_run", query |-> q, safe |-> safe, db |-> db,
                          ret |-> run.ret, raised |-> run.raised, hit |-> FALSE,
                          redis |-> redis, direct |-> run.ret]
    /\ nDirect' = nDirect + 1
    /\ UNCHANGED pc
    /\ UNCHANGED <<state, lastNode, llmThrew, nExec, nCorr, allErr, gatePassed, lastCorrection, cache, redis>>
    /\ UNCHANGED gateVars
    /\ UNCHANGED truncVars
    /\ UNCHANGED sessVars
    /\ UNCHANGED authVars

DirectCachedQuery ==
    /\ pc = "DIRECT"
    /\ nDirect < MaxDirectCalls
    /\ \E q \in DirectQueries :
       \E safe \in {is_safe_sql(q)} :
       \E db \in DbOutcomes :
       \E r \in {cached_query_execution(q, safe, db, cache, redis)} :
          /\ dbSent' = dbSent \cup {r.sent[i] : i \in 1..Len(r.sent)}
          /\ cache' = r.cache
          /\ gateLog' = IF r.hit THEN gateLog ELSE gateLog \cup {<<q, safe>>}
          /\ lastCall' = [fn |-> "cached_query_execution", query |-> q, safe |-> safe, db |-> db,
                          ret |-> r.ret, raised |-> r.raised, hit |-> r.hit,
                          redis |-> redis, direct |-> safe_db_run(q, safe, db).ret]
    /\ nDirect' = nDirect + 1
    /\ UNCHANGED pc
    /\ UNCHANGED <<state, lastNode, llmThrew, nExec, nCorr, allErr, gatePassed, lastCorrection, redis>>
    /\ UNCHANGED gateVars
    /\ UNCHANGED truncVars
    /\ UNCHANGED sessVars
    /\ UNCHANGED authVars

\* get_dynamic_schema_representation() called outside the workflow
DirectSchemaFetch ==
    /\ pc = "DIRECT"
    /\ nDirect < MaxDirectCalls
    /\ \E result \in SchemaResults :
       \E w \in {cache_schema(result, cache, redis)} :
          /\ cache' = w.cache
          /\ lastCall' = [fn |-> "get_dynamic_schema_representation", query |-> "", safe |-> FALSE,
                          db |-> NoCall.db, ret |-> Str(w.ret), raised |-> w.raised, hit |-> w.hit,
                          redis |-> redis, direct |-> Str(result)]
    /\ nDirect' = nDirect + 1
    /\ UNCHANGED <<state, pc, lastNode, llmThrew, nExec, nCorr, allErr, gatePassed, lastCorrection, dbSent, gateLog, redis>>
    /\ UNCHANGED gateVars
    /\ UNCHANGED truncVars
    /\ UNCHANGED sessVars
    /\ UNCHANGED authVars

\* the connection to the cache server is lost, or comes back
RedisFlip ==
    /\ pc = "DIRECT"
    /\ redis \in {"up", "broken"}
    /\ redis' = IF redis = "up" THEN "broken" ELSE "up"
    /\ UNCHANGED <<state, pc, lastNode, llmThrew, nExec, nCorr, allErr, gatePassed, lastCorrection, dbSent, gateLog, lastCall, cache, nDirect>>
    /\ UNCHANGED gateVars
    /\ UNCHANGED truncVars
    /\ UNCHANGED sessVars
    /\ UNCHANGED authVars

\* the time-to-live of an entry runs out
CacheExpire ==
    /\ pc = "DIRECT"
    /\ \E k \in DOMAIN cache :
          cache' = [j \in DOMAIN cache \ {k} |-> cache[j]]
    /\ UNCHANGED <<state, pc, lastNode, llmThrew, nExec, nCorr, allErr, gatePassed, lastCorrection, dbSent, gateLog, lastCall, redis, nDirect>>
    /\ UNCHANGED gateVars
    /\ UNCHANGED truncVars
    /\ UNCHANGED sessVars
    /\ UNCHANGED authVars

Next ==
    \/ StartNode
    \/ FetchSchemaNode
    \/ GenerateSqlNode
    \/ ExecuteSqlGate
    \/ ExecuteSqlRun
    \/ ExecuteSqlNoAnswer
    \/ CorrectionNode
    \/ FormatAnswerNode
    \/ HandleErrorNode
    \/ DirectSafeDbRun
    \/ DirectCachedQuery
    \/ DirectSchemaFetch
    \/ CacheExpire
    \/ RedisFlip

Spec == Init /\ [][Next]_vars

\* a step of the workflow run, whatever the gate returns
WorkflowStep ==
    \/ StartNode
    \/ FetchSchemaNode
    \/ GenerateSqlNode
    \/ \E passed \in BOOLEAN : ExecuteSqlGateReturning(passed)
    \/ ExecuteSqlRun
    \/ CorrectionNode
    \/ FormatAnswerNode
    \/ HandleErrorNode

\* the locations at which a node of the graph is about to run or is running
Running ==
    {"START", "fetch_schema", "generate_sql", "execute_sql", "execute_sql:run",
     "attempt_correction", "format_answer", "handle_error"}

\* Every node action is total at its location (each collaborator call returns
\* or throws, is_safe_sql is a total function), so a workflow step is enabled
\* exactly at the locations of Running.
WorkflowStepEnabled == pc \in Running

EnabledAtRunning == WorkflowStepEnabled <=> ENABLED <<WorkflowStep>>_vars

\* Weak fairness of the workflow run: the graph runtime invokes the node the
\* edge leads to and the node returns. This is WF_vars(WorkflowStep) written
\* out by its definition, []<>~ENABLED <<A>>_vars \/ []<><<A>>_vars, with the
\* enabling condition in the form EnabledAtRunning shows it equal to.
LiveSpec == Spec /\ ([]<>~WorkflowStepEnabled \/ []<><<WorkflowStep>>_vars)


(***************************************************************************)
(* The gate and the estimator applied to constructed queries               *)
(***************************************************************************)

\* the largest number of joins written into one query
MaxJoins == 10

\* the keywords a query must not contain, as the design lists them
KeywordsUpper ==
    << "INSERT", "UPDATE", "DELETE", "DROP", "TRUNCATE", "ALTER",
       "CREATE", "GRANT", "REVOKE", "EXEC", "EXECUTE", "DECLARE" >>

KeywordsLower ==
    << "insert", "update", "delete", "drop", "truncate", "alter",
       "create", "grant", "revoke", "exec", "execute", "declare" >>

\* the keyword in upper, lower and mixed case
KeywordSpellings(i) ==
    { KeywordsUpper[i], KeywordsLower[i],
      Char(KeywordsUpper[i], 1) \o SubSeq(KeywordsLower[i], 2, Len(KeywordsLower[i])) }

AllKeywordSpellings == UNION {KeywordSpellings(i) : i \in 1..Len(KeywordsUpper)}

\* words that contain a keyword without being one
LookAlikes == {"inserted_at", "updates", "dropped", "executed9", "_create"}

Leads ==
    { "SELECT ", "select ", "\n Select\t", "WITH c AS (SELECT 1) SELECT ", "EXPLAIN SELECT ",
      "SHOW ", "(SELECT ", "VALUES ", "SELECT", "" }

\* schema qualifiers of the table references: the configured schema, bare and
\* quoted, no schema, and other schemas
Quals == { "info.", "INFO.", "\"info\".", "\"Info\".", "", "other_schema.", "\"WRONG_SCHEMA\".", "myinfo." }

OwnQuals == { "info.", "INFO.", "\"info\".", "\"Info\"." }

JoinKinds == { "JOIN", "join", "LEFT JOIN", "INNER  JOIN", "CROSS JOIN" }

ParenJoinsTail == " WHERE a IN (SELECT b FROM info.u JOIN info.v ON 1=1 JOIN info.w ON 1=1)"

\* a subquery in parentheses that itself holds a parenthesized subquery
NestedParenJoinsTail ==
    " WHERE a IN (SELECT b FROM info.u JOIN (SELECT c FROM info.v) x ON 1=1 JOIN info.w ON 1=1)"

Tails ==
    { "",
      " WHERE a IN (SELECT b FROM info.u)",
      " WHERE a IN (\nSELECT b FROM info.u)",
      " WHERE EXISTS (\nSELECT 1 FROM info.u WHERE x=1)",
      ParenJoinsTail }

\* ends of a query that carry the markers of the second half of the
\* deny-list: statement chaining with a comment, SHUTDOWN, XP_ names,
\* system-catalog access, COPY and UNION ALL SELECT
MarkerTails ==
    { "; -- x", ";--", "; # x", " ; -- x", " WHERE a = (1); -- x", " WHERE a = 'b'; # x",
      "; SHUTDOWN", " WHERE shutdown = 1", " WHERE shutdowns = 1",
      " WHERE XP_ = 1", " WHERE XP_CMDSHELL = 1", " WHERE xp_cmdshell('dir') = 1",
      " UNION SELECT relname FROM PG_CLASS", " UNION SELECT relname FROM  pg_class",
      "; COPY info.t0 TO stdout", " WHERE copy = 1", " WHERE copyright = 1",
      " UNION ALL SELECT name FROM info.u", " union  all\nselect name FROM info.u",
      " UNION SELECT name FROM info.u" }

\* a query is written as: lead, [inj] cols, FROM, a qualified table, joins
\* joins of one kind, tail, [inj]; pos says where inj goes
QueryInputs ==
    \* leading keyword against schema qualifier
    { [lead |-> l, cols |-> c, qual |-> q, joins |-> 0, kind |-> "JOIN", inj |-> "", pos |-> "none", tail |-> ""] :
        l \in Leads, c \in {"*", "name"}, q \in Quals }
    \cup
    \* a deny-listed keyword, or a look-alike, somewhere in a SELECT-shaped query
    { [lead |-> l, cols |-> "name", qual |-> q, joins |-> 0, kind |-> "JOIN", inj |-> w, pos |-> p, tail |-> ""] :
        l \in {"SELECT ", "SHOW "}, q \in {"info.", "\"info\".", "other_schema."},
        w \in AllKeywordSpellings \cup LookAlikes,
        p \in {"col", "where", "end"} }
    \cup
    \* joins, alone and next to joins inside parentheses
    { [lead |-> "SELECT ", cols |-> "name", qual |-> "info.", joins |-> n, kind |-> k, inj |-> "", pos |-> "none", tail |-> t] :
        n \in 0..MaxJoins, k \in JoinKinds, t \in {"", ParenJoinsTail, NestedParenJoinsTail} }
    \cup
    \* subqueries, without joins and with as many joins as the threshold allows
    { [lead |-> "SELECT ", cols |-> c, qual |-> "info.", joins |-> n, kind |-> "JOIN", inj |-> "", pos |-> "none", tail |-> t] :
        c \in {"*", "name"}, n \in {0, MAX_JOINS_THRESHOLD}, t \in Tails }
    \cup
    \* the other deny-listed markers after a schema-qualified SELECT
    { [lead |-> l, cols |-> "name", qual |-> q, joins |-> 0, kind |-> "JOIN", inj |-> "", pos |-> "none", tail |-> t] :
        l \in {"SELECT ", "EXPLAIN SELECT "}, q \in {"info.", "\"info\"."}, t \in MarkerTails }

RECURSIVE JoinText(_, _)
JoinText(kind, n) ==
    IF n = 0 THEN "" ELSE JoinText(kind, n - 1) \o " " \o kind \o " info.t" \o ToString(n)

\* the text of a constructed query
Render(q) ==
    q.lead \o (IF q.pos = "col" THEN q.inj \o ", " ELSE "") \o q.cols
    \o " FROM " \o q.qual \o "t0" \o JoinText(q.kind, q.joins) \o q.tail
    \o (IF q.pos = "where" THEN " WHERE " \o q.inj \o "=1" ELSE "")
    \o (IF q.pos = "end" THEN "; " \o q.inj \o " x" ELSE "")

\* texts that are not of that shape
OddTexts == {"", " ", "\n\t "}

WorkflowIdle ==
    /\ state = [messages |-> <<>>, user_input |-> "", db_schema |-> "", generated_sql |-> "",
                db_result |-> None, raw_db_result |-> None, error_message |-> None,
                correction_attempts |-> 0]
    /\ pc = "OFF"
    /\ lastNode = "none"
    /\ llmThrew = FALSE
    /\ nExec = 0
    /\ nCorr = 0
    /\ allErr = TRUE
    /\ gatePassed = FALSE
    /\ lastCorrection = NoCorrection
    /\ dbSent = {}
    /\ gateLog = {}
    /\ lastCall = NoCall
    /\ cache = EmptyCache
    /\ redis = "none"
    /\ nDirect = 0

InitGate ==
    /\ \/ /\ qin \in QueryInputs
          /\ query = Render(qin)
       \/ /\ qin = NoQin
          /\ query \in OddTexts
    /\ gphase = "input"
    /\ report = NoReport
    /\ checks = NoChecks
    /\ verdict = "none"
    /\ WorkflowIdle
    /\ TruncIdle
    /\ SessIdle
    /\ AuthIdle

\* analyze_query_complexity(query) is called
Analyze ==
    /\ gphase = "input"
    /\ report' = analyze_query_complexity(query)
    /\ gphase' = "analyzed"
    /\ UNCHANGED <<qin, query, checks, verdict>>
    /\ UNCHANGED wfVars
    /\ UNCHANGED truncVars
    /\ UNCHANGED sessVars
    /\ UNCHANGED authVars
    /\ UNCHANGED dbVars

\* is_safe_sql(query) is called; checks records what each of its five checks
\* says about the query
Gate ==
    /\ gphase = "analyzed"
    /\ verdict' = IF is_safe_sql(query) THEN "safe" ELSE "unsafe"
    /\ checks' = [nonempty |-> check_nonempty(query),
                  not_blocked |-> check_not_blocked(normalize(query)),
                  schema_prefix |-> check_schema_prefix(normalize(query)),
                  allowed |-> check_allowed(normalize(query)),
                  not_expensive |-> ~report.is_expensive,
                  log |-> is_safe_sql_log(query)]
    /\ gphase' = "gated"
    /\ UNCHANGED <<qin, query, report>>
    /\ UNCHANGED wfVars
    /\ UNCHANGED truncVars
    /\ UNCHANGED sessVars
    /\ UNCHANGED authVars
    /\ UNCHANGED dbVars

NextGate ==
    \/ Analyze
    \/ Gate

SpecGate == InitGate /\ [][NextGate]_vars


(***************************************************************************)
(* The truncation on its own: results of every size and form               *)
(***************************************************************************)

\* the largest number of rows, and of fields in a row, of a result
MaxTruncRows == 22

MaxTruncCols == 21

RECURSIVE Repeat(_, _)
Repeat(s, n) ==
    IF n = 0 THEN ""
    ELSE IF n % 2 = 1 THEN s \o Repeat(s, n - 1)
    ELSE LET h == Repeat(s, n \div 2) IN h \o h

\* a one-character value and one of 400 characters
FieldValues == {"a", Repeat("x", 400)}

\* n rows of cols fields, every field holding v
TruncRows(n, cols, v) ==
    [i \in 1..n |-> [j \in 1..cols |-> [k |-> "c" \o ToString(j), ty |-> "str", v |-> v]]]

TruncRowSets ==
    { TruncRows(n, cols, v) :
        n \in {0, 1, 2} \cup ((MAX_ROWS_FOR_LLM - 1)..MaxTruncRows),
        cols \in {0, 1} \cup (MAX_COLS_FOR_LLM..MaxTruncCols),
        v \in FieldValues }

\* what reaches the truncation: str(tool_result) as execute_sql_node stores
\* it, the same rows as a JSON text, other texts, a literal that is no list,
\* the empty string and None
TruncInputs ==
    { [form |-> "repr", rows |-> rs, val |-> Str(PyStr(List(rs)))] : rs \in TruncRowSets }
    \cup { [form |-> "json", rows |-> rs, val |-> Str(JsonText(rs, FALSE))] : rs \in TruncRowSets }
    \cup { [form |-> "text", rows |-> <<>>, val |-> Str(t)] :
             t \in {"", "3 rows affected", Repeat("h", MAX_DB_RESULT_STRING_LENGTH + 1), "[not a list" } }
    \cup { [form |-> "scalar", rows |-> <<>>, val |-> Str(t)] : t \in {"42", "{'a': 1}"} }
    \cup { NoTruncInput }

InitTrunc ==
    /\ tin \in TruncInputs
    /\ tphase = "input"
    /\ tout = NoTruncOutput
    /\ tprompt = ""
    /\ WorkflowIdle
    /\ GateIdle
    /\ SessIdle
    /\ AuthIdle

\* truncate_db_result_for_llm(db_result, state) is called
Truncate ==
    /\ tphase = "input"
    /\ \E r \in {truncate_db_result_for_llm(tin)} :
          /\ tout' = r
          /\ tphase' = IF r.raised THEN "raised" ELSE "truncated"
    /\ UNCHANGED <<tin, tprompt>>
    /\ UNCHANGED wfVars
    /\ UNCHANGED dbVars
    /\ UNCHANGED gateVars
    /\ UNCHANGED sessVars
    /\ UNCHANGED authVars

\* format_final_answer_node builds the prompt's input from the returned pair
BuildPrompt ==
    /\ tphase = "truncated"
    /\ tprompt' = formatter_input(tout.ret, tout.notice)
    /\ tphase' = "prompted"
    /\ UNCHANGED <<tin, tout>>
    /\ UNCHANGED wfVars
    /\ UNCHANGED dbVars
    /\ UNCHANGED gateVars
    /\ UNCHANGED sessVars
    /\ UNCHANGED authVars

NextTrunc ==
    \/ Truncate
    \/ BuildPrompt

SpecTrunc == InitTrunc /\ [][NextTrunc]_vars


(***************************************************************************)
(* Concurrent sessions: cached_query_execution step by step                *)
(***************************************************************************)

\* create_engine(..., pool_size=10, max_overflow=20): the pool of the model is
\* scaled down so that NSessions sessions can exhaust it
PoolSize == 1

MaxOverflow == 1

\* the most connections QueuePool hands out at a time
pool_bound == PoolSize + MaxOverflow

\* engine.connect() with n connections checked out: QueuePool hands out a
\* connection while n is below the bound, and otherwise lets the caller wait
pool_checkout(n) ==
    IF n < pool_bound THEN [ok |-> TRUE, out |-> n + 1] ELSE [ok |-> FALSE, out |-> n]

\* a block that leaves its connection open
with_exit_leak(n) == n

\* leaving "with engine.connect() as conn:", by return or by exception, closes
\* conn, which gives the connection back to the pool
with_exit(n) == n - 1

\* redis_client.get(cache_key) inside its try block: a failing read is logged
\* and counts as no entry
cache_get(entry, ok) == IF ok THEN entry ELSE NoEntry

\* a write that keeps an entry that is already there (SET ... NX)
cache_setex_nx(entry, result, ok) ==
    IF ok /\ ~entry.present THEN [present |-> TRUE, rows |-> json_dumps(result.rows)] ELSE entry

\* redis_client.setex(cache_key, cache_timeout, json.dumps(result, default=str))
\* inside its try block: a failing write is logged and leaves the entry
cache_setex(entry, result, ok) ==
    IF ok THEN [present |-> TRUE, rows |-> json_dumps(result.rows)] ELSE entry

\* "not isinstance(result, str) or not result.startswith('Error:')"
is_cacheable(result) == result.t # "str" \/ ~StartsWith(result.s, "Error:")

SessionQueries == {"SELECT name FROM info.customers", "DROP TABLE info.customers"}

\* the table changes between two executions of the same text
SessionRowSets ==
    { << <<[k |-> "name", ty |-> "str", v |-> "Ann"]>> >>,
      << <<[k |-> "name", ty |-> "str", v |-> "Ann"]>>, <<[k |-> "name", ty |-> "str", v |-> "Bob"]>> >> }

InitSess ==
    /\ squery \in SessionQueries
    /\ sredis \in {"none", "up"}
    /\ sloc = [s \in Sessions |-> "read"]
    /\ sread = [s \in Sessions |-> NoEntry]
    /\ sres = [s \in Sessions |-> None]
    /\ sret = [s \in Sessions |-> None]
    /\ checkedOut = 0
    /\ scache = NoEntry
    /\ lastWrite = NoEntry
    /\ WorkflowIdle
    /\ GateIdle
    /\ TruncIdle
    /\ AuthIdle

\* cached_query_execution up to its call of safe_db_run: the cache read
CacheRead(s) ==
    /\ sloc[s] = "read"
    /\ \/ /\ sredis = "none"
          /\ sloc' = [sloc EXCEPT ![s] = "gate"]
          /\ UNCHANGED <<sread, sret>>
       \/ /\ sredis = "up"
          /\ \E ok \in BOOLEAN :
             \E e \in {cache_get(scache, ok)} :
                /\ sread' = [sread EXCEPT ![s] = e]
                /\ IF e.present
                   THEN /\ sret' = [sret EXCEPT ![s] = json_loads(e.rows)]
                        /\ sloc' = [sloc EXCEPT ![s] = "done"]
                   ELSE /\ sloc' = [sloc EXCEPT ![s] = "gate"]
                        /\ UNCHANGED sret
    /\ UNCHANGED <<squery, sredis, sres, checkedOut, scache, lastWrite>>
    /\ UNCHANGED <<wfVars, dbVars, gateVars, truncVars, authVars>>

\* safe_db_run up to its try block: the gate
GateCheck(s) ==
    /\ sloc[s] = "gate"
    /\ IF is_safe_sql(squery)
       THEN /\ sloc' = [sloc EXCEPT ![s] = "connect"]
            /\ UNCHANGED sres
       ELSE /\ sloc' = [sloc EXCEPT ![s] = "ran"]
            /\ sres' = [sres EXCEPT ![s] = Str("Error: Query blocked for security reasons")]
    /\ UNCHANGED <<squery, sredis, sread, sret, checkedOut, scache, lastWrite>>
    /\ UNCHANGED <<wfVars, dbVars, gateVars, truncVars, authVars>>

\* engine.connect(): a connection is checked out, or opening it fails, and
\* the exception is caught by safe_db_run
Connect(s) ==
    /\ sloc[s] = "connect"
    /\ \E r \in {pool_checkout(checkedOut)} :
          /\ r.ok
          /\ \/ /\ checkedOut' = r.out
                /\ sloc' = [sloc EXCEPT ![s] = "stmt"]
                /\ UNCHANGED sres
             \/ /\ sloc' = [sloc EXCEPT ![s] = "ran"]
                /\ sres' = [sres EXCEPT ![s] = Str("Error: connection refused")]
                /\ UNCHANGED checkedOut
    /\ UNCHANGED <<squery, sredis, sread, sret, scache, lastWrite>>
    /\ UNCHANGED <<wfVars, dbVars, gateVars, truncVars, authVars>>

\* engine.connect() has waited pool_timeout seconds for a connection: QueuePool
\* raises TimeoutError, which safe_db_run catches
PoolTimeout(s) ==
    /\ sloc[s] = "connect"
    /\ ~pool_checkout(checkedOut).ok
    /\ sloc' = [sloc EXCEPT ![s] = "ran"]
    /\ sres' = [sres EXCEPT ![s] = Str("Error: QueuePool limit reached, connection timed out")]
    /\ UNCHANGED <<squery, sredis, sread, sret, checkedOut, scache, lastWrite>>
    /\ UNCHANGED <<wfVars, dbVars, gateVars, truncVars, authVars>>

\* stmt = text(query): returns, or raises inside the with block
Statement(s) ==
    /\ sloc[s] = "stmt"
    /\ \/ /\ sloc' = [sloc EXCEPT ![s] = "exec"]
          /\ UNCHANGED <<sres, checkedOut>>
       \/ /\ sloc' = [sloc EXCEPT ![s] = "ran"]
          /\ sres' = [sres EXCEPT ![s] = Str("Error: statement could not be constructed")]
          /\ checkedOut' = with_exit(checkedOut)
    /\ UNCHANGED <<squery, sredis, sread, sret, scache, lastWrite>>
    /\ UNCHANGED <<wfVars, dbVars, gateVars, truncVars, authVars>>

\* conn.execute(stmt) and the list built from its rows: the value to return
\* is ready while the connection is still held, or the execution raises
Execute(s) ==
    /\ sloc[s] = "exec"
    /\ \/ \E rows \in SessionRowSets :
             /\ sloc' = [sloc EXCEPT ![s] = "leave"]
             /\ sres' = [sres EXCEPT ![s] = List(rows)]
             /\ UNCHANGED checkedOut
       \/ \E m \in DbErrors :
             /\ sloc' = [sloc EXCEPT ![s] = "ran"]
             /\ sres' = [sres EXCEPT ![s] = Str("Error: " \o m)]
             /\ checkedOut' = with_exit(checkedOut)
    /\ UNCHANGED <<squery, sredis, sread, sret, scache, lastWrite>>
    /\ UNCHANGED <<wfVars, dbVars, gateVars, truncVars, authVars>>

\* the return statement leaves the with block
LeaveWith(s) ==
    /\ sloc[s] = "leave"
    /\ sloc' = [sloc EXCEPT ![s] = "ran"]
    /\ checkedOut' = with_exit(checkedOut)
    /\ UNCHANGED <<squery, sredis, sread, sres, sret, scache, lastWrite>>
    /\ UNCHANGED <<wfVars, dbVars, gateVars, truncVars, authVars>>

\* cached_query_execution after safe_db_run returned: the cache write and the
\* return of the result
CacheWrite(s) ==
    /\ sloc[s] = "ran"
    /\ sloc' = [sloc EXCEPT ![s] = "done"]
    /\ sret' = [sret EXCEPT ![s] = sres[s]]
    /\ IF sredis = "up" /\ is_cacheable(sres[s])
       THEN \E ok \in BOOLEAN :
               /\ scache' = cache_setex(scache, sres[s], ok)
               /\ lastWrite' = IF ok THEN [present |-> TRUE, rows |-> json_dumps(sres[s].rows)]
                               ELSE lastWrite
       ELSE UNCHANGED <<scache, lastWrite>>
    /\ UNCHANGED <<squery, sredis, sread, sres, checkedOut>>
    /\ UNCHANGED <<wfVars, dbVars, gateVars, truncVars, authVars>>

NextSess ==
    \/ \E s \in Sessions : CacheRead(s)
    \/ \E s \in Sessions : GateCheck(s)
    \/ \E s \in Sessions : Connect(s)
    \/ \E s \in Sessions : PoolTimeout(s)
    \/ \E s \in Sessions : Statement(s)
    \/ \E s \in Sessions : Execute(s)
    \/ \E s \in Sessions : LeaveWith(s)
    \/ \E s \in Sessions : CacheWrite(s)

SpecSess == InitSess /\ [][NextSess]_vars

(***************************************************************************)
(* Export API: login, refresh and logout                                   *)
(***************************************************************************)

\* logins of a run
MaxLogins == 2

\* create_access_token(sub): the token is named after its subject
create_access_token(sub) == "jwt<" \o sub \o ">"

\* create_refresh_token(): str(uuid.uuid4()), a token no earlier login made
create_refresh_token(made) == "rt" \o ToString(Cardinality(made) + 1)

\* the registered user
UserEmail == "ann@example.com"

\* the cookies a client may present: none, a text that is no token of the
\* server, and the tokens handed out so far (a uuid4 is not guessed before
\* it is made)
PresentedTokens(made) == {"", "rt0"} \cup made

\* a command of redis_client: with redis_client None the attribute access
\* raises AttributeError, with the server unreachable the command raises
\* ConnectionError; an exception that leaves a route is answered with 500
redis_raises(client) == client # "up"

\* login(req, response); valid says whether the user exists and the password
\* verifies, store is the content of the refresh: keys, fresh the new token
login(valid, client, store, fresh) ==
    IF ~valid
    THEN [status |-> 401, access |-> "", store |-> store, cookie |-> ""]
    ELSE IF client = "none"
    THEN [status |-> 500, access |-> "", store |-> store, cookie |-> ""]
    ELSE IF redis_raises(client)
    THEN [status |-> 500, access |-> "", store |-> store, cookie |-> ""]
    ELSE [status |-> 200, access |-> create_access_token(UserEmail), cookie |-> fresh,
          store |-> [t \in DOMAIN store \cup {fresh} |-> IF t = fresh THEN UserEmail ELSE store[t]]]

\* refresh(refresh_token)
refresh(refresh_token, client, store) ==
    IF refresh_token = ""
    THEN [status |-> 401, access |-> ""]
    ELSE IF redis_raises(client)
    THEN [status |-> 500, access |-> ""]
    ELSE IF refresh_token \notin DOMAIN store
    THEN [status |-> 401, access |-> ""]
    ELSE [status |-> 200, access |-> create_access_token(store[refresh_token])]

\* a logout that clears the cookie and leaves the stored key
logout_keep(refresh_token, client, store) ==
    IF refresh_token = ""
    THEN [status |-> 200, store |-> store, deleted |-> FALSE]
    ELSE IF client # "up"
    THEN [status |-> 500, store |-> store, deleted |-> FALSE]
    ELSE [status |-> 200, deleted |-> TRUE, store |-> store]

\* logout(response, refresh_token); deleted says whether the key was deleted
logout(refresh_token, client, store) ==
    IF refresh_token = ""
    THEN [status |-> 200, store |-> store, deleted |-> FALSE]
    ELSE IF redis_raises(client)
    THEN [status |-> 500, store |-> store, deleted |-> FALSE]
    ELSE [status |-> 200, deleted |-> TRUE,
          store |-> [t \in DOMAIN store \ {refresh_token} |-> store[t]]]

InitAuth ==
    /\ authRedis \in {"none", "up"}
    /\ tokens = <<>>
    /\ issued = {}
    /\ revoked = {}
    /\ expired = {}
    /\ authLog = NoRequest
    /\ WorkflowIdle
    /\ GateIdle
    /\ TruncIdle
    /\ SessIdle

\* POST /auth/login
Login ==
    /\ Cardinality(issued) < MaxLogins
    /\ \E valid \in BOOLEAN :
       \E fresh \in {create_refresh_token(issued)} :
       \E r \in {login(valid, authRedis, tokens, fresh)} :
          /\ tokens' = r.store
          /\ issued' = IF r.status = 200 THEN issued \cup {fresh} ELSE issued
          /\ authLog' = [op |-> "login", token |-> r.cookie, status |-> r.status, access |-> r.access]
    /\ UNCHANGED <<authRedis, revoked, expired>>
    /\ UNCHANGED <<wfVars, dbVars, gateVars, truncVars, sessVars>>

\* POST /auth/refresh
Refresh ==
    /\ \E t \in PresentedTokens(issued) :
       \E r \in {refresh(t, authRedis, tokens)} :
          authLog' = [op |-> "refresh", token |-> t, status |-> r.status, access |-> r.access]
    /\ UNCHANGED <<authRedis, tokens, issued, revoked, expired>>
    /\ UNCHANGED <<wfVars, dbVars, gateVars, truncVars, sessVars>>

\* POST /auth/logout
Logout ==
    /\ \E t \in PresentedTokens(issued) :
       \E r \in {logout(t, authRedis, tokens)} :
          /\ tokens' = r.store
          /\ revoked' = IF r.deleted THEN revoked \cup {t} ELSE revoked
          /\ authLog' = [op |-> "logout", token |-> t, status |-> r.status, access |-> ""]
    /\ UNCHANGED <<authRedis, issued, expired>>
    /\ UNCHANGED <<wfVars, dbVars, gateVars, truncVars, sessVars>>

\* the time-to-live of a stored refresh token runs out
TokenExpire ==
    /\ \E t \in DOMAIN tokens :
          /\ tokens' = [u \in DOMAIN tokens \ {t} |-> tokens[u]]
          /\ expired' = expired \cup {t}
    /\ UNCHANGED <<authRedis, issued, revoked, authLog>>
    /\ UNCHANGED <<wfVars, dbVars, gateVars, truncVars, sessVars>>

\* the Redis server becomes unreachable or reachable again
AuthRedisFlip ==
    /\ authRedis \in {"up", "down"}
    /\ authRedis' = IF authRedis = "up" THEN "down" ELSE "up"
    /\ UNCHANGED <<tokens, issued, revoked, expired, authLog>>
    /\ UNCHANGED <<wfVars, dbVars, gateVars, truncVars, sessVars>>

NextAuth ==
    \/ Login
    \/ Refresh
    \/ Logout
    \/ TokenExpire
    \/ AuthRedisFlip

SpecAuth == InitAuth /\ [][NextAuth]_vars

(***************************************************************************)
(* Properties                                                              *)
(***************************************************************************)

\* C1: a query text is handed to a database connection only after
\* is_safe_sql returned true for that exact text, and a text for which it
\* returned false is never handed over -- in the workflow and in direct
\* calls of safe_db_run and cached_query_execution.
C1_GateBeforeDatabase ==
    /\ \A q \in dbSent : <<q, TRUE>> \in gateLog
    /\ \A e \in gateLog : (e[2] = FALSE) => (e[1] \notin dbSent)

\* a statement has gone to the database and another candidate was rejected
C1_Witness ==
    /\ dbSent # {}
    /\ \E e \in gateLog : e[2] = FALSE

\* a run of the workflow is over, by reaching END or by an exception
RunOver == pc \in {"END", "RAISED"}

\* C2: in a run in which every execution yields an Error: result, the
\* orchestrator never starts a correction beyond MAX_CORRECTION_ATTEMPTS, and
\* the run ends only after exactly MAX_CORRECTION_ATTEMPTS corrections and
\* MAX_CORRECTION_ATTEMPTS + 1 executions, in HandleError.
C2_CorrectionBound ==
    (allErr /\ nExec >= 1 /\ ~llmThrew /\ pc # "OFF") =>
        /\ nCorr <= MAX_CORRECTION_ATTEMPTS
        /\ (pc = "attempt_correction") => (nCorr < MAX_CORRECTION_ATTEMPTS)
        /\ RunOver => /\ nCorr = MAX_CORRECTION_ATTEMPTS
                      /\ nExec = MAX_CORRECTION_ATTEMPTS + 1
                      /\ state.correction_attempts = MAX_CORRECTION_ATTEMPTS
                      /\ lastNode = "handle_error"

\* an always-failing run has ended in HandleError
C2_Witness ==
    /\ RunOver
    /\ allErr
    /\ ~llmThrew
    /\ nExec = MAX_CORRECTION_ATTEMPTS + 1
    /\ nCorr = MAX_CORRECTION_ATTEMPTS
    /\ lastNode = "handle_error"

\* C3: whatever the schema, generation and database collaborators return,
\* ExecuteSQL runs at most MAX_CORRECTION_ATTEMPTS + 1 times in a run, and
\* every run in which every collaborator call returns (none throws, and the
\* database answers every statement) eventually reaches FormatAnswer or
\* HandleError.
C3_Terminates ==
    /\ [](nExec <= MAX_CORRECTION_ATTEMPTS + 1)
    /\ <>(\/ pc \in {"format_answer", "handle_error"}
          \/ llmThrew
          \/ pc = "execute_sql:blocked"
          \/ pc = "DIRECT")

\* a run reaches FormatAnswer after the last re-execution the bound allows
C3_Witness ==
    /\ pc = "format_answer"
    /\ nExec = MAX_CORRECTION_ATTEMPTS + 1
    /\ ~llmThrew

\* C4: when the gate lets a query through and the database layer fails on
\* it (connection failure, syntax or permission error), safe_db_run and the
\* execute_sql_query tool return a string beginning with "Error: " and no
\* exception leaves them.
C4_ExecutorNeverRaises ==
    (lastCall.fn \in {"safe_db_run", "execute_sql_query"} /\ lastCall.safe /\ lastCall.db.stage # "ok") =>
        /\ ~lastCall.raised
        /\ lastCall.ret.t = "str"
        /\ StartsWith(lastCall.ret.s, "Error: ")

\* the executor was called directly and the connection failed
C4_Witness ==
    /\ lastCall.fn = "safe_db_run"
    /\ lastCall.safe
    /\ lastCall.db.stage = "connect"
    /\ lastCall.ret = Str("Error: connection refused")

\* the upper-cased schema prefix, bare or quoted, occurs in the upper-cased text
HasSchemaPrefix(q) ==
    \/ Contains(Upper(q), Upper(DB_SCHEMA) \o ".")
    \/ Contains(Upper(q), "\"" \o Upper(DB_SCHEMA) \o "\".")

\* C5: is_safe_sql(q) is false whenever neither SCHEMA. nor "SCHEMA". occurs
\* in the upper-cased q, whatever else is true of q.
C5_SchemaPrefixRequired ==
    (gphase = "gated" /\ ~HasSchemaPrefix(query)) => (verdict = "unsafe")

\* a query without the prefix that passes every other check is rejected
C5_Witness ==
    /\ gphase = "gated"
    /\ ~HasSchemaPrefix(query)
    /\ checks.nonempty /\ checks.not_blocked /\ checks.allowed /\ checks.not_expensive
    /\ verdict = "unsafe"

\* schema qualifiers that name a schema other than the configured one
WrongQuals == { "other_schema.", "\"WRONG_SCHEMA\".", "myinfo." }

\* the only table reference of the constructed query is the one after FROM
SingleTableReference == qin # NoQin /\ qin.joins = 0 /\ qin.tail = ""

\* C6: a query whose table references are all qualified by a schema other
\* than the configured one, bare or quoted, is rejected by is_safe_sql.
C6_WrongSchemaRejected ==
    (gphase = "gated" /\ SingleTableReference /\ qin.qual \in WrongQuals)
        => (verdict = "unsafe")

\* C7: a schema-qualified SELECT-shaped query that contains one of the twelve
\* deny-listed keywords, in upper, lower or mixed case, as a column, in the
\* WHERE clause or after the statement, is rejected by is_safe_sql.
C7_DenyListComplete ==
    (/\ gphase = "gated"
     /\ qin # NoQin
     /\ qin.lead = "SELECT "
     /\ qin.qual \in OwnQuals
     /\ qin.pos \in {"col", "where", "end"}
     /\ qin.inj \in AllKeywordSpellings)
        => (verdict = "unsafe")

\* the deny-list is the only check that rejects "SELECT name FROM info.t0
\* WHERE Truncate=1"
C7_Witness ==
    /\ gphase = "gated"
    /\ qin # NoQin
    /\ qin.lead = "SELECT "
    /\ qin.qual = "info."
    /\ qin.pos = "where"
    /\ qin.inj = "Truncate"
    /\ checks.nonempty /\ checks.schema_prefix /\ checks.allowed /\ checks.not_expensive
    /\ verdict = "unsafe"

\* query.upper().strip() starts with one of the three allow-listed keywords
StartsWithAllowedKeyword(q) ==
    \E w \in {"SELECT", "WITH", "EXPLAIN"} : StartsWith(Strip(Upper(q)), w)

\* C8: a schema-qualified, non-expensive query that contains no deny-listed
\* pattern and whose trimmed, upper-cased text does not start with SELECT,
\* WITH or EXPLAIN is rejected by is_safe_sql.
C8_AllowListEnforced ==
    (/\ gphase = "gated"
     /\ HasSchemaPrefix(query)
     /\ ~report.is_expensive
     /\ checks.not_blocked
     /\ ~StartsWithAllowedKeyword(query))
        => (verdict = "unsafe")

\* "SHOW name FROM info.t0" passes every check but the allow-list
C8_Witness ==
    /\ gphase = "gated"
    /\ qin # NoQin
    /\ qin.lead = "SHOW "
    /\ HasSchemaPrefix(query)
    /\ ~report.is_expensive
    /\ checks.nonempty /\ checks.not_blocked
    /\ ~StartsWithAllowedKeyword(query)
    /\ verdict = "unsafe"

CheckNames == <<"nonempty", "not_blocked", "schema_prefix", "allowed", "not_expensive">>

\* the first check, in the given order, that the query fails; "none" if it
\* passes them all
RECURSIVE RejectingCheck(_, _, _)
RejectingCheck(order, c, i) ==
    IF i > Len(CheckNames) THEN "none"
    ELSE IF ~c[CheckNames[order[i]]] THEN CheckNames[order[i]]
    ELSE RejectingCheck(order, c, i + 1)

\* C9: is_safe_sql(q) is true exactly when q passes all five checks, and
\* applying the checks in any other order gives the same verdict.
C9_AllFiveChecks ==
    gphase = "gated" =>
        /\ (verdict = "safe") <=>
              (/\ checks.nonempty /\ checks.not_blocked /\ checks.schema_prefix
               /\ checks.allowed /\ checks.not_expensive)
        /\ \A order \in Permutations(1..Len(CheckNames)) :
              (verdict = "safe") <=> (RejectingCheck(order, checks, 1) = "none")

\* a query that fails two checks, so that the order decides which one rejects
C9_Witness ==
    /\ gphase = "gated"
    /\ verdict = "unsafe"
    /\ checks.nonempty /\ checks.allowed /\ checks.not_expensive
    /\ ~checks.not_blocked /\ ~checks.schema_prefix
    /\ RejectingCheck([i \in 1..5 |-> i], checks, 1) = "not_blocked"
    /\ RejectingCheck([i \in 1..5 |-> 6 - i], checks, 1) = "schema_prefix"

\* the report's reading of the threshold, as the design states it
ThresholdIsExact ==
    /\ (report.join_count = MAX_JOINS_THRESHOLD /\ ~report.has_cross_join)
           => ~report.is_expensive
    /\ (report.join_count = MAX_JOINS_THRESHOLD + 1)
           => /\ report.is_expensive
              /\ report.estimated_cost \in {"high", "very_high"}
              /\ report.warnings # <<>>

MatchesExpensiveSubquery(q) ==
    \E k \in 1..Len(expensive_patterns) :
        ReSearch(expensive_patterns[k], StripParens(Upper(q)), FALSE)

StrippedTextHasCrossJoin(q) == ReSearch(CROSS_JOIN_PATTERN, StripParens(Upper(q)), FALSE)

\* C11: a query whose stripped text contains CROSS JOIN gets a report with
\* is_expensive = true and estimated_cost = very_high, whatever the number of
\* other joins, also when join_count exceeds the threshold.
C11_CrossJoinVeryHigh ==
    (gphase = "analyzed" /\ StrippedTextHasCrossJoin(query)) =>
        /\ report.is_expensive
        /\ report.estimated_cost = "very_high"

\* the tails that add a parenthesized subquery with joins in it
ParenJoinTails == {ParenJoinsTail, NestedParenJoinsTail}

\* the report of the constructed query without its tail
ReportWithoutTail == analyze_query_complexity(Render([qin EXCEPT !.tail = ""]))

\* C12: adding a parenthesized subquery that contains joins, flat or with
\* nested parentheses, to a query leaves join_count and is_expensive as they
\* are for the query without it.
C12_ParenJoinsNotCounted ==
    (gphase = "analyzed" /\ qin # NoQin /\ qin.tail \in ParenJoinTails) =>
        /\ report.join_count = ReportWithoutTail.join_count
        /\ report.is_expensive = ReportWithoutTail.is_expensive

\* the calls that go through a cache
CachedFunctions == {"cached_query_execution", "get_dynamic_schema_representation"}

\* C13: with the cache backend disabled (redis_client is None) or broken
\* (get and setex raise), cached_query_execution and the cached schema fetch
\* return exactly the value of the direct computation (safe_db_run(q), the
\* undecorated schema fetch), and no exception reaches the caller.
C13_CacheTransparent ==
    (lastCall.fn \in CachedFunctions /\ lastCall.redis \in {"none", "broken"}) =>
        /\ lastCall.ret = lastCall.direct
        /\ ~lastCall.raised
        /\ ~lastCall.hit

\* the cached executor ran a query with the backend broken and got the rows
C13_Witness ==
    /\ lastCall.fn = "cached_query_execution"
    /\ lastCall.redis = "broken"
    /\ lastCall.safe
    /\ lastCall.ret.t = "list"
    /\ lastCall.ret.rows # <<>>
    /\ lastCall.ret = lastCall.direct

\* the entry the last call of cached_query_execution stored, when that call
\* was a miss on a working backend and the entry has not expired since
StoredByLastCall ==
    IF /\ lastCall.fn = "cached_query_execution"
       /\ lastCall.redis = "up"
       /\ ~lastCall.hit
       /\ ("query_result:" \o get_query_hash(lastCall.query)) \in DOMAIN cache
    THEN {cache["query_result:" \o get_query_hash(lastCall.query)]}
    ELSE {}

\* C14: with a working backend, reading an entry back (json.loads) yields a
\* value identical to the one safe_db_run returned when the entry was stored
\* (json.dumps with default=str): a later hit returns what the miss returned.
C14_CacheHitIdentical ==
    \A entry \in StoredByLastCall : json_loads(entry) = lastCall.ret

\* the entry under key k is an Error:-prefixed sentinel: the schema entry is
\* the stored text itself, a query-result entry is the JSON text of a row list
EntryIsErrorSentinel(k) ==
    IF k = schema_cache_key THEN StartsWith(cache[k], "Error:")
    ELSE json_loads(cache[k]).t # "list"

\* C15: after any sequence of cached operations (query results and schema),
\* no cache entry holds an Error:-prefixed sentinel string, so a failed
\* operation is re-executed when it is repeated.
C15_NoErrorCached == \A k \in DOMAIN cache : ~EntryIsErrorSentinel(k)

\* the schema fetch of this run returned an Error: string and nothing but
\* FetchSchema and HandleError has run since
SchemaFetchFailed ==
    /\ lastNode \in {"fetch_schema", "handle_error"}
    /\ lastCall.fn = "get_dynamic_schema_representation"
    /\ StartsWith(lastCall.ret.s, "Error:")

SchemaUnavailableText ==
    "Sorry, I could not process your request because I failed to retrieve the database schema information."

\* C16: when the schema fetch returns an Error: string the workflow goes from
\* FetchSchema straight to HandleError and ends there: no candidate is
\* generated, gated or executed, correction_attempts stays 0, and the final
\* message is the schema-unavailable explanation carrying the fetch error.
C16_SchemaFailureIsFatal ==
    SchemaFetchFailed =>
        /\ nExec = 0 /\ nCorr = 0
        /\ gateLog = {} /\ dbSent = {}
        /\ state.correction_attempts = 0
        /\ state.generated_sql = ""
        /\ (lastNode = "fetch_schema") => (pc = "handle_error")
        /\ (lastNode = "handle_error") =>
              /\ pc = "END"
              /\ Len(state.messages) >= 2
              /\ state.messages[Len(state.messages) - 1].type = "human"
              /\ state.messages[Len(state.messages)].type = "ai"
              /\ StartsWith(state.messages[Len(state.messages)].content, SchemaUnavailableText)
              /\ Contains(state.messages[Len(state.messages)].content, lastCall.ret.s)

\* a run whose schema fetch failed has ended in HandleError
C16_Witness ==
    /\ SchemaFetchFailed
    /\ lastNode = "handle_error"
    /\ pc = "END"
    /\ nExec = 0
    /\ StartsWith(state.messages[Len(state.messages)].content, SchemaUnavailableText)

\* the last execution of the tool was refused by the safety gate
LastCandidateRejected == lastCall.fn = "execute_sql_query" /\ ~lastCall.safe

RejectionMessage == Str("Error: Query blocked for security reasons")

\* C17: when the gate rejects the candidate, ExecuteSQL hands nothing to the
\* database and its result is the fixed rejection message; while
\* correction_attempts < MAX_CORRECTION_ATTEMPTS the run goes to
\* AttemptCorrection, and when that correction has returned the counter is
\* one higher than before it: one correction per rejected execution, 0 to 1
\* for the first candidate.
C17_RejectionConsumesOneAttempt ==
    LastCandidateRejected =>
        /\ lastCall.ret = RejectionMessage
        /\ lastCall.query \notin dbSent
        /\ (lastNode = "execute_sql" /\ pc # "execute_sql:run" /\ state.generated_sql = lastCall.query) =>
              /\ state.db_result = RejectionMessage
              /\ state.correction_attempts = nExec - 1
              /\ nCorr = nExec - 1
              /\ pc = IF state.correction_attempts < MAX_CORRECTION_ATTEMPTS
                      THEN "attempt_correction" ELSE "handle_error"
        /\ (lastNode = "attempt_correction" /\ pc = "execute_sql") =>
              /\ state.correction_attempts = nExec
              /\ nCorr = nExec

\* the first candidate, "SELECT * FROM customers", was rejected for its
\* missing schema prefix and the one correction for it has returned
C17_Witness ==
    /\ LastCandidateRejected
    /\ lastCall.query = "SELECT * FROM customers"
    /\ lastNode = "attempt_correction"
    /\ pc = "execute_sql"
    /\ nExec = 1
    /\ nCorr = 1
    /\ state.correction_attempts = 1
    /\ dbSent = {}

\* the explanation HandleError gives when the attempts are used up: it names
\* the number of attempts and the last error
ExhaustedText(last_error) ==
    "Sorry, I could not generate a working SQL query for your request after "
    \o ToString(MAX_CORRECTION_ATTEMPTS) \o " attempts. Last error: " \o last_error

\* C18: in a run in which every candidate is rejected or fails, HandleError
\* runs with the counter at MAX_CORRECTION_ATTEMPTS, completes without
\* raising, and appends as the final message the exhausted-attempts
\* explanation with the attempt count and the last error.
C18_ExhaustedAttemptsExplained ==
    (allErr /\ nExec >= 1 /\ ~llmThrew /\ lastNode = "handle_error") =>
        /\ state.correction_attempts = MAX_CORRECTION_ATTEMPTS
        /\ pc = "END"
        /\ state.messages[Len(state.messages)].type = "ai"
        /\ state.messages[Len(state.messages)].content = ExhaustedText(PyStr(state.db_result))

\* the first ExecuteSQL of the run has returned: its candidate passed the gate
\* and the executor returned rows
FirstCandidateReturnedRows ==
    /\ nExec = 1
    /\ lastCall.fn = "execute_sql_query"
    /\ lastCall.safe
    /\ lastCall.ret.t = "list"

\* the positions of the trace holding a terminal answer: an AI message that is
\* neither a tool call nor the announcement of a candidate
TerminalAnswers(messages) ==
    {i \in 1..Len(messages) :
        /\ messages[i].type = "ai"
        /\ messages[i].tool_call = ""
        /\ ~StartsWith(messages[i].content, "Generated SQL: ")
        /\ ~StartsWith(messages[i].content, "Attempting corrected SQL: ")}

\* C19: when the first candidate passes the gate and the executor returns
\* rows, the run goes to FormatAnswer with zero correction attempts and ends
\* there; in every terminal state the trace ends with the one terminal answer,
\* written by FormatAnswer or by HandleError, generated_sql is the candidate
\* of the last execution, and raw_db_result, when present, is the row set
\* returned for that candidate.
C19_FinalState ==
    /\ FirstCandidateReturnedRows =>
          /\ state.correction_attempts = 0
          /\ nCorr = 0
          /\ pc \in {"format_answer", "END", "RAISED"}
          /\ (pc = "END") => (lastNode = "format_answer")
          /\ (pc = "RAISED") => llmThrew
    /\ (pc = "END") =>
          /\ lastNode \in {"format_answer", "handle_error"}
          /\ TerminalAnswers(state.messages) = {Len(state.messages)}
          /\ (nExec >= 1 /\ state.generated_sql # "") =>
                /\ lastCall.fn = "execute_sql_query"
                /\ lastCall.query = state.generated_sql
          /\ (state.raw_db_result # None) =>
                /\ lastCall.fn = "execute_sql_query"
                /\ lastCall.query = state.generated_sql
                /\ lastCall.ret = state.raw_db_result

\* the locations inside the ExecuteSQL node
ExecuteSqlLocations == {"execute_sql", "execute_sql:run", "execute_sql:blocked"}

\* C20: query execution is bounded by the configured timeout: wherever a run
\* is inside ExecuteSQL, also while the database does not answer, a step of
\* the workflow itself (the executor returning an Error: string when the
\* timeout expires) can end the wait, so no run blocks in ExecuteSQL.
C20_ExecutionBounded ==
    (pc \in ExecuteSqlLocations) => ENABLED <<WorkflowStep>>_vars

\* ExecuteSQL has run in this run and is not in the middle of an execution
AfterExecuteSql == nExec >= 1 /\ pc \notin {"execute_sql:run", "execute_sql:blocked"}

\* C21: safe_db_run returns either a list of rows or an Error:-prefixed
\* string, and in every workflow state reached after ExecuteSQL, whatever the
\* caller's initial state, raw_db_result is None whenever db_result is an
\* Error: sentinel (so it holds rows only next to a result that is no error).
C21_RowsXorError ==
    /\ (lastCall.fn \in {"safe_db_run", "execute_sql_query"}) =>
          \/ lastCall.ret.t = "list"
          \/ lastCall.ret.t = "str" /\ StartsWith(lastCall.ret.s, "Error:")
    /\ (AfterExecuteSql /\ is_db_error(state.db_result)) => (state.raw_db_result = None)

\* C22: every report analyze_query_complexity returns that is marked
\* expensive has an estimated cost other than "low" and at least one warning.
C22_ExpensiveIsExplained ==
    (gphase # "input" /\ report.is_expensive) =>
        /\ report.estimated_cost # "low"
        /\ report.warnings # <<>>

\* a report was marked expensive by the subquery patterns alone
C22_Witness ==
    /\ gphase # "input"
    /\ report.is_expensive
    /\ ~report.has_cross_join
    /\ ~report.has_multiple_joins
    /\ report.estimated_cost = "high"
    /\ report.warnings = <<"Expensive subquery pattern detected">>

\* control has just left ExecuteSQL along one of its edges
LeftExecuteSql == lastNode = "execute_sql" /\ pc \in {"attempt_correction", "handle_error", "format_answer"}

\* C23: routing after ExecuteSQL is three-way: AttemptCorrection is entered
\* only with an Error: result and correction_attempts below
\* MAX_CORRECTION_ATTEMPTS, HandleError is entered from ExecuteSQL only with
\* an Error: result and correction_attempts equal to MAX_CORRECTION_ATTEMPTS,
\* and FormatAnswer is entered only with a result that is no Error: sentinel.
C23_ThreeWayRouting ==
    /\ (lastNode = "execute_sql" /\ pc \notin {"execute_sql:run", "execute_sql:blocked"}) => LeftExecuteSql
    /\ (pc = "attempt_correction") =>
          /\ lastNode = "execute_sql"
          /\ is_db_error(state.db_result)
          /\ state.correction_attempts < MAX_CORRECTION_ATTEMPTS
    /\ (pc = "handle_error" /\ lastNode = "execute_sql") =>
          /\ is_db_error(state.db_result)
          /\ state.correction_attempts = MAX_CORRECTION_ATTEMPTS
    /\ (pc = "format_answer") =>
          /\ lastNode = "execute_sql"
          /\ ~is_db_error(state.db_result)

\* ExecuteSQL has handed an Error: result to HandleError after the last
\* correction the ceiling allows
C23_Witness ==
    /\ pc = "handle_error"
    /\ lastNode = "execute_sql"
    /\ is_db_error(state.db_result)
    /\ state.correction_attempts = MAX_CORRECTION_ATTEMPTS
    /\ nExec = MAX_CORRECTION_ATTEMPTS + 1

\* C24: each AttemptCorrection step hands the generator the candidate that
\* just failed and the Error: string of the most recent execution as it
\* stands in db_result, replaces the candidate with the generator's trimmed
\* reply, adds exactly 1 to correction_attempts, and leaves db_result and
\* error_message None when control returns to ExecuteSQL.
C24_CorrectionStep ==
    [][(pc = "attempt_correction" /\ pc' = "execute_sql") =>
          /\ lastCorrection'.sql_query = state.generated_sql
          /\ lastCorrection'.db_error = state.db_result
          /\ is_db_error(lastCorrection'.db_error)
          /\ (state.generated_sql # "") =>
                /\ lastCall.fn = "execute_sql_query"
                /\ lastCall.query = lastCorrection'.sql_query
                /\ lastCall.ret = lastCorrection'.db_error
          /\ (state.generated_sql = "") =>
                (lastCorrection'.db_error = Str("Error: No SQL query generated."))
          /\ state'.generated_sql = Strip(lastCorrection'.content)
          /\ state'.correction_attempts = state.correction_attempts + 1
          /\ state'.db_result = None
          /\ state'.error_message = None]_vars

\* a correction that was handed a failed statement and the database's error
\* for it has replaced the candidate with a reply that needed trimming
C24_Witness ==
    /\ pc = "execute_sql"
    /\ lastNode = "attempt_correction"
    /\ lastCorrection.sql_query = "SELECT name FROM info.customers"
    /\ lastCall.db.stage # "ok"
    /\ lastCorrection.db_error = lastCall.ret
    /\ lastCorrection.content # state.generated_sql
    /\ state.generated_sql = Strip(lastCorrection.content)
    /\ state.correction_attempts = 2

\* C25: after the Start node, whatever the caller's input state held, the
\* schema and the candidate are empty, the last result (string and raw) and
\* the last error are None, the attempt counter is 0 and the trace holds the
\* user question and nothing else.
C25_StartResets ==
    (lastNode = "start") =>
        /\ state.db_schema = ""
        /\ state.generated_sql = ""
        /\ state.db_result = None
        /\ state.raw_db_result = None
        /\ state.error_message = None
        /\ state.correction_attempts = 0
        /\ Len(state.messages) = 1
        /\ state.messages[1].type = "human"
        /\ state.messages[1].content = state.user_input

\* the Start node of this run has run
AfterStart == lastNode # "none"

\* C26: in every workflow state after Start, correction_attempts lies in
\* 0..MAX_CORRECTION_ATTEMPTS; from then on no step decreases it, and the
\* only steps that change it are steps of AttemptCorrection.
C26_CounterBounded ==
    /\ [](AfterStart => state.correction_attempts \in 0..MAX_CORRECTION_ATTEMPTS)
    /\ [][AfterStart =>
            /\ state'.correction_attempts >= state.correction_attempts
            /\ (state'.correction_attempts # state.correction_attempts) =>
                  (pc = "attempt_correction" /\ lastNode' = "attempt_correction")]_vars

\* the counter has reached its ceiling in a run whose caller passed a
\* counter that was not 0
C26_Witness ==
    /\ AfterStart
    /\ state.correction_attempts = MAX_CORRECTION_ATTEMPTS
    /\ nCorr = MAX_CORRECTION_ATTEMPTS
    /\ Len(state.messages) >= 1
    /\ state.messages[1].content = "earlier question"

\* the nodes that run after FetchSchema, by the location control is at
AfterFetchSchemaLocations ==
    {"generate_sql", "execute_sql", "execute_sql:run", "attempt_correction", "format_answer", "handle_error"}

\* C27: no step of a workflow node changes user_input; no node after
\* FetchSchema changes db_schema; ExecuteSQL leaves generated_sql and
\* correction_attempts as they were; FormatAnswer and HandleError change no
\* field of the state other than messages.
C27_Frames ==
    [][/\ state'.user_input = state.user_input
       /\ (pc \in AfterFetchSchemaLocations) => (state'.db_schema = state.db_schema)
       /\ (pc \in {"execute_sql", "execute_sql:run"}) =>
             /\ state'.generated_sql = state.generated_sql
             /\ state'.correction_attempts = state.correction_attempts
       /\ (pc \in {"format_answer", "handle_error"}) =>
             (state' = [state EXCEPT !.messages = state'.messages])]_vars

\* HandleError has ended a run after the last correction, with a schema, a
\* candidate and an error result in the state and its apology in the trace
C27_Witness ==
    /\ pc = "END"
    /\ lastNode = "handle_error"
    /\ nCorr = MAX_CORRECTION_ATTEMPTS
    /\ state.db_schema # ""
    /\ state.generated_sql # ""
    /\ is_db_error(state.db_result)
    /\ state.messages[Len(state.messages)].type = "ai"

\* sequence a is an initial part of sequence b
IsPrefix(a, b) == Len(a) <= Len(b) /\ SubSeq(b, 1, Len(a)) = a

\* this step is the return of a workflow node (not an exception, and not a
\* step into the middle of ExecuteSQL)
NodeReturns ==
    /\ pc \in {"START", "fetch_schema", "generate_sql", "execute_sql", "execute_sql:run",
               "attempt_correction", "format_answer", "handle_error"}
    /\ pc' \notin {pc, "RAISED", "execute_sql:run", "execute_sql:blocked"}

\* the number of messages this step adds to the trace
Appended == Len(state'.messages) - Len(state.messages)

\* C28 as stated: every node that runs appends at least one message and
\* leaves the earlier messages as they were, so the trace after each node is
\* a proper extension of the trace before it.
C28_ProperExtension ==
    [][NodeReturns => (IsPrefix(state.messages, state'.messages) /\ Appended >= 1)]_vars

\* C28: the message trace is append-only: no step removes, reorders or
\* rewrites an earlier message, so the trace after each step is an extension
\* of the trace before it. Start, AttemptCorrection, FormatAnswer and
\* HandleError append one message when they return, GenerateSQL appends one
\* when the schema text is non-empty and none otherwise, ExecuteSQL appends
\* two when the candidate is non-empty and none otherwise, and FetchSchema
\* appends none.
C28_AppendOnly ==
    [][/\ IsPrefix(state.messages, state'.messages)
       /\ NodeReturns =>
             /\ (pc \in {"START", "attempt_correction", "format_answer", "handle_error"}) => (Appended = 1)
             /\ (pc = "generate_sql") => (Appended = IF state.db_schema # "" THEN 1 ELSE 0)
             /\ (pc \in {"execute_sql", "execute_sql:run"}) =>
                   (Appended = IF state.generated_sql # "" THEN 2 ELSE 0)
             /\ (pc = "fetch_schema") => (Appended = 0)]_vars

\* a run with one correction has ended in FormatAnswer with the earlier
\* message of the caller still first in the trace and one entry for the
\* question, the candidate, the two executions, the correction and the answer
C28_Witness ==
    /\ pc = "END"
    /\ lastNode = "format_answer"
    /\ nCorr = 1
    /\ nExec = 2
    /\ Len(state.messages) = 9
    /\ state.messages[1].content = "earlier question"
    /\ state.messages[2].content = state.user_input

\* the join kinds written with a qualifier before JOIN
QualifiedJoinKinds == {k \in JoinKinds : Upper(k) \notin {"JOIN", "CROSS JOIN"}}

\* C29: join_count is the number of join keywords in the stripped query,
\* each counted once: a query with n qualified joins (INNER, LEFT, RIGHT or
\* FULL JOIN), n at most MAX_JOINS_THRESHOLD, no cross join and nothing after
\* the joins has join_count = n and is not marked expensive.
C29_JoinCountedOnce ==
    (/\ gphase # "input"
     /\ qin # NoQin
     /\ qin.kind \in QualifiedJoinKinds
     /\ qin.joins <= MAX_JOINS_THRESHOLD
     /\ qin.tail = "") =>
        /\ report.join_count = qin.joins
        /\ ~report.is_expensive

\* the upper-cased text of q, as written, has one of the two subquery shapes
HasExpensiveShape(q) ==
    \E k \in 1..Len(expensive_patterns) : ReSearch(expensive_patterns[k], Upper(q), FALSE)

\* C30: a query of the shape SELECT * ... FROM ... WHERE ... IN (SELECT ...)
\* or containing EXISTS (SELECT ... FROM ... WHERE ...) gets a report with
\* is_expensive true, an estimated cost of high or very_high and the warning
\* "Expensive subquery pattern detected", and is_safe_sql rejects it.
C30_SubqueryShapesRejected ==
    (gphase # "input" /\ HasExpensiveShape(query)) =>
        /\ report.is_expensive
        /\ report.estimated_cost \in {"high", "very_high"}
        /\ \E i \in 1..Len(report.warnings) : report.warnings[i] = "Expensive subquery pattern detected"
        /\ (gphase = "gated") => (verdict = "unsafe")

\* the markers of the second half of the deny-list as the design describes
\* them: a semicolon, optional whitespace and a comment opener, whatever
\* precedes the semicolon; the word SHUTDOWN; a name that starts with XP_;
\* FROM PG_; COPY and whitespace; UNION ALL SELECT
MARKER_SHAPES ==
    << <<L(";"), S0, L("--")>>, <<L(";"), S0, L("#")>>,
       <<B, L("SHUTDOWN"), B>>, <<B, L("XP_")>>,
       <<B, L("FROM"), S1, L("PG_")>>, <<B, L("COPY"), S1>>,
       <<B, L("UNION"), S1, L("ALL"), S1, L("SELECT")>> >>

\* the upper-cased text of q holds one of the markers
HasMarker(q) ==
    \E k \in 1..Len(MARKER_SHAPES) : ReSearch(MARKER_SHAPES[k], Upper(q), FALSE)

\* C31: is_safe_sql rejects a schema-qualified SELECT that contains a
\* semicolon followed by optional whitespace and -- or # (whatever precedes
\* the semicolon), the keyword SHUTDOWN, a name starting with XP_, FROM PG_,
\* COPY followed by whitespace, or UNION ALL SELECT.
C31_MarkersRejected ==
    (gphase = "gated" /\ HasSchemaPrefix(query) /\ HasMarker(query)) => (verdict = "unsafe")

\* s.endswith(p)
EndsWith(s, p) == Len(p) <= Len(s) /\ SubSeq(s, Len(s) - Len(p) + 1, Len(s)) = p

\* the text ends with a rendering of every row and field of rows, as str()
\* or as indented JSON
RendersAll(text, rows) ==
    \/ EndsWith(text, PyStr(List(rows)))
    \/ EndsWith(text, JsonText(rows, TRUE))

\* C32: for a successful result as ExecuteSQL stores it (the string form of
\* the row list), the text handed to the answer formatter holds at most
\* MAX_ROWS_FOR_LLM rows and at most MAX_COLS_FOR_LLM fields per row, and the
\* truncated result in it is at most MAX_DB_RESULT_STRING_LENGTH characters
\* plus the truncation marker.
C32_FormatterInputBounded ==
    (tphase = "prompted" /\ tin.form = "repr") =>
        /\ Len(tout.ret.s) <= MAX_DB_RESULT_STRING_LENGTH + Len(TRUNCATION_MARKER)
        /\ RendersAll(tprompt, tin.rows) =>
              /\ Len(tin.rows) <= MAX_ROWS_FOR_LLM
              /\ \A i \in 1..Len(tin.rows) : Len(tin.rows[i]) <= MAX_COLS_FOR_LLM

\* the returned text leaves out part of the result
DropsSomething ==
    /\ tout.ret # tin.val
    /\ ~(tout.ret.t = "str" /\ RendersAll(tout.ret.s, tin.rows))

\* the notice says how many of how many rows are shown
NoticeStatesCounts ==
    \E shown \in 0..Len(tin.rows) :
        Contains(tout.notice, ToString(shown) \o " of " \o ToString(Len(tin.rows)) \o " rows")

\* C33: whenever truncate_db_result_for_llm drops anything from a result that
\* is a list of rows (rows beyond MAX_ROWS_FOR_LLM, fields beyond
\* MAX_COLS_FOR_LLM, characters beyond MAX_DB_RESULT_STRING_LENGTH) the notice
\* it returns is non-empty and states how many of how many rows are shown;
\* when it drops nothing the notice is empty.
C33_NoticeWhenDropped ==
    (tphase \in {"truncated", "prompted"} /\ tin.form \in {"repr", "json"}) =>
        /\ DropsSomething => (tout.notice # "" /\ NoticeStatesCounts)
        /\ ~DropsSomething => (tout.notice = "")

\* the generator has thrown inside GenerateSQL or AttemptCorrection
GenerationFailed == llmThrew /\ lastNode \in {"generate_sql", "attempt_correction"}

\* C34: when the generator throws in GenerateSQL or in AttemptCorrection the
\* exception does not leave the run: the run goes on to a terminal state
\* whose last message is an error text, and the generator is never called
\* for more corrections than MAX_CORRECTION_ATTEMPTS.
C34_GenerationFailureHandled ==
    /\ nCorr <= MAX_CORRECTION_ATTEMPTS
    /\ GenerationFailed =>
          /\ pc # "RAISED"
          /\ (pc = "END") => (state.messages[Len(state.messages)].type = "ai")

\* the sessions that are inside the with block of safe_db_run
InsideWith == {s \in Sessions : sloc[s] \in {"stmt", "exec", "leave"}}

AllSessionsDone == \A s \in Sessions : sloc[s] = "done"

\* C35: every connection safe_db_run checks out goes back to the pool on every
\* way out of the with block: the connections checked out are exactly those
\* of the sessions inside the block, never more than pool_size + max_overflow,
\* and none once every session has finished
C35_ConnectionsReturned ==
    /\ checkedOut = Cardinality(InsideWith)
    /\ checkedOut <= pool_bound
    /\ AllSessionsDone => (checkedOut = 0)

\* every session has finished: one returned rows, one failed while it built
\* its statement, one gave up waiting for the exhausted pool
C35_Witness ==
    /\ AllSessionsDone
    /\ \E a, b, c \in Sessions :
          /\ sres[a].t = "list"
          /\ sres[b] = Str("Error: statement could not be constructed")
          /\ sres[c] = Str("Error: QueuePool limit reached, connection timed out")

\* C36: sessions that run cached_query_execution on the same text at the same
\* time each return the entry they read or the result they computed, none is
\* left without a return value, and when all have finished the entry is the
\* value of the last write
C36_RaceIsBenign ==
    /\ \A s \in Sessions :
          sloc[s] = "done" =>
             /\ sret[s] # None
             /\ \/ sread[s].present /\ sret[s] = json_loads(sread[s].rows)
                \/ sres[s] # None /\ sret[s] = sres[s]
    /\ (AllSessionsDone /\ sredis = "up") => (scache = lastWrite)

\* b missed the cache and computed its rows while a computed others; a wrote
\* first, c was served a's entry, then b wrote over it
C36_Witness ==
    /\ AllSessionsDone
    /\ \E a, b, c \in Sessions :
          /\ sres[a].t = "list" /\ sres[b].t = "list" /\ sres[a] # sres[b]
          /\ ~sread[b].present
          /\ sread[c] = [present |-> TRUE, rows |-> json_dumps(sres[a].rows)]
          /\ scache = [present |-> TRUE, rows |-> json_dumps(sres[b].rows)]

\* the text names the cause: for the causes the code has a message for, that
\* message; for the others any message emitted by the rejecting call counts
NamesCause(text, cause) ==
    CASE cause = "not_blocked" -> text = "Blocked SQL pattern detected"
      [] cause = "schema_prefix" -> text = "SQL blocked - missing required schema prefix"
      [] cause = "not_expensive" -> text = "Query blocked due to high complexity"
      [] OTHER -> TRUE

\* the check that makes is_safe_sql return false: the first one that fails
RejectionCause ==
    IF ~checks.nonempty THEN "nonempty"
    ELSE IF ~checks.not_blocked THEN "not_blocked"
    ELSE IF ~checks.schema_prefix THEN "schema_prefix"
    ELSE IF ~checks.allowed THEN "allowed"
    ELSE "not_expensive"

\* C37: every rejection by is_safe_sql is logged with its cause: whichever of
\* the five checks rejects, a log entry naming that check is emitted before
\* false is returned
C37_RejectionsLogged ==
    (gphase = "gated" /\ verdict = "unsafe") =>
        \E i \in 1..Len(checks.log) : NamesCause(checks.log[i], RejectionCause)

\* f"query_result:{get_query_hash(q)}"
QueryKey(q) == "query_result:" \o get_query_hash(q)

\* C38: every entry of the query-result cache was written after its query
\* text passed is_safe_sql inside safe_db_run and the database returned a row
\* list for it; so a cache hit, which asks neither the gate nor the database,
\* never returns rows for a text the gate rejects
C38_CachedOnlyAfterGate ==
    /\ \A k \in DOMAIN cache \ {schema_cache_key} :
          \E q \in DirectQueries :
             /\ k = QueryKey(q)
             /\ <<q, TRUE>> \in gateLog
             /\ q \in dbSent
             /\ json_loads(cache[k]).t = "list"
    /\ (lastCall.fn = "cached_query_execution" /\ lastCall.hit) =>
          /\ is_safe_sql(lastCall.query)
          /\ lastCall.ret.t = "list"

\* a call of the cached executor was served rows from the cache
C38_Witness ==
    /\ lastCall.fn = "cached_query_execution"
    /\ lastCall.hit
    /\ lastCall.ret.t = "list"
    /\ lastCall.ret.rows # <<>>
    /\ QueryKey(lastCall.query) \in DOMAIN cache

NoSqlGenerated == Str("Error: No SQL query generated.")

\* C39: with an empty candidate ExecuteSQL asks neither the gate nor the
\* database, sets db_result to "Error: No SQL query generated." and leaves the
\* trace as it is; the run goes the way of any error, to AttemptCorrection
\* while correction_attempts < MAX_CORRECTION_ATTEMPTS (which, when it
\* returns, has counted one attempt) and to HandleError otherwise
C39_EmptyCandidate ==
    [][/\ (pc = "execute_sql" /\ state.generated_sql = "") =>
             /\ gateLog' = gateLog
             /\ dbSent' = dbSent
             /\ state'.db_result = NoSqlGenerated
             /\ state'.messages = state.messages
             /\ pc' = IF state.correction_attempts < MAX_CORRECTION_ATTEMPTS
                      THEN "attempt_correction" ELSE "handle_error"
       /\ (/\ pc = "attempt_correction"
           /\ state.db_result = NoSqlGenerated
           /\ pc' = "execute_sql") =>
             state'.correction_attempts = state.correction_attempts + 1]_vars

\* no candidate was generated because the schema text was empty; ExecuteSQL
\* reported it without asking the gate or the database, and a correction was
\* attempted for it
C39_Witness ==
    /\ lastNode = "attempt_correction"
    /\ lastCorrection.schema = ""
    /\ lastCorrection.sql_query = ""
    /\ lastCorrection.db_error = NoSqlGenerated
    /\ state.correction_attempts >= 1
    /\ gateLog = {}
    /\ dbSent = {}

\* a step that answers a refresh request
RefreshStep == authLog'.op = "refresh" /\ authLog' # authLog

\* the refresh answered with an access token presented a token that a login
\* stored and that was neither logged out nor expired
RefreshOnlyForLiveTokens ==
    (authLog'.access # "") =>
        /\ authLog'.status = 200
        /\ authLog'.token \in issued
        /\ authLog'.token \notin revoked
        /\ authLog'.token \notin expired

\* the last request was a refresh presenting a token that a logout deleted
RefreshAfterLogout == authLog.op = "refresh" /\ authLog.token \in revoked

\* C40: refresh issues an access token only for a refresh token that a login
\* stored and that was neither logged out nor expired; after logout with
\* token t every later refresh presenting t is rejected with 401
C40_LoggedOutTokenGets401 ==
    [][RefreshStep =>
          /\ RefreshOnlyForLiveTokens
          /\ (authLog'.token \in revoked) =>
                (authLog'.status = 401 /\ authLog'.access = "")]_vars

\* C40 as the code has it: after logout with token t every later refresh
\* presenting t is refused without an access token, with 401 while the token
\* store answers and with 500 while it does not
C40_LoggedOutTokenRefused ==
    [][RefreshStep =>
          /\ RefreshOnlyForLiveTokens
          /\ (authLog'.token \in revoked) =>
                /\ authLog'.access = ""
                /\ authLog'.status = IF authRedis = "up" THEN 401 ELSE 500]_vars

\* two logins happened, the first token was logged out and then presented to
\* refresh, which refused it with 401
C40_Witness ==
    /\ RefreshAfterLogout
    /\ authLog.token = "rt1"
    /\ authLog.status = 401
    /\ issued = {"rt1", "rt2"}
    /\ "rt2" \in DOMAIN tokens

====
